---- MODULE Spec2Model ----
(***************************************************************************)
(* Node editing of polygons and bezier curves in the Edit Polygons tool    *)
(* (src/tiled/editpolygontool.cpp): deleting nodes, joining nodes and      *)
(* splitting segments of the selected point handles.                       *)
(*                                                                         *)
(* Four specifications are given.  SpecAlgo applies the three sequence     *)
(* algorithms to every bounded input.  Spec is the tool acting on the map  *)
(* objects of a document through its selected handles and its undo stack.  *)
(* SpecGroup runs the loop of groupIndexesByObject over handles in any     *)
(* order.  SpecMouse is the tool under the mouse: its modes, its handles   *)
(* and the pointers it keeps to them.                                      *)
(***************************************************************************)
EXTENDS Integers, Sequences, FiniteSets

VARIABLES
    inPolygon,        \* SpecAlgo: the point sequence handed to an algorithm
    inRanges,         \* SpecAlgo: the RangeSet<int> handed to it
    inClosed,         \* SpecAlgo: the closed flag handed to it
    algo,             \* SpecAlgo: which algorithm has run ("none" before)
    outPolygon,       \* SpecAlgo: the sequence the algorithm returned
    objects,          \* Spec: the map objects, each with shape and geometry
    mSelectedHandles, \* Spec: EditPolygonTool::mSelectedHandles
    undoStack,        \* Spec: the document's QUndoStack, a sequence of macros
    crashed,          \* Spec: the process died on an out-of-range access
    groupHandles,     \* SpecGroup: the handles the loop has gone through
    groupResult,      \* SpecGroup: groupIndexesByObject's result so far
    active,           \* SpecMouse: between activate and deactivate
    cursor,           \* SpecMouse: where the mouse pointer is
    clicks,           \* SpecMouse: how many left presses there have been
    selectedObjectItems,        \* SpecMouse: the scene's selected items
    handleSelected,             \* SpecMouse: handles whose mSelected is set
    mHandles,                   \* SpecMouse: item -> list of point handles
    mLeftControlPointHandles,   \* SpecMouse: item -> list of left handles
    mRightControlPointHandles,  \* SpecMouse: item -> list of right handles
    mControlPointConnectors,    \* SpecMouse: item -> list of connectors
    mMode,                      \* SpecMouse: EditPolygonTool::mMode
    mMousePressed,              \* SpecMouse: EditPolygonTool::mMousePressed
    mStart,                     \* SpecMouse: EditPolygonTool::mStart
    mClickedHandle,             \* SpecMouse: the point handle pressed on
    mClickedControlPointHandle, \* SpecMouse: the control handle pressed on
    mClickedObjectItem,         \* SpecMouse: the object item pressed on
    mOldHandlePositions,        \* SpecMouse: handle -> position at move start
    mOldPolygons,               \* SpecMouse: object -> polygon at move start
    mOldLeftControlPoints,      \* SpecMouse: saved by startMovingControlPoint
    mOldRightControlPoints      \* SpecMouse: saved by startMovingControlPoint

algoVars == <<inPolygon, inRanges, inClosed, algo, outPolygon>>
toolVars == <<objects, mSelectedHandles, undoStack, crashed>>
groupVars == <<groupHandles, groupResult>>
handleVars == <<mHandles, mLeftControlPointHandles, mRightControlPointHandles,
                mControlPointConnectors>>
clickVars == <<mClickedHandle, mClickedControlPointHandle, mClickedObjectItem>>
moveVars == <<mOldHandlePositions, mOldPolygons, mOldLeftControlPoints,
              mOldRightControlPoints>>
mouseVars == <<active, cursor, clicks, selectedObjectItems,
               handleSelected, handleVars, mMode, mMousePressed, mStart,
               clickVars, moveVars>>

vars == <<algoVars, toolVars, groupVars, mouseVars>>

(***************************************************************************)
(* Bounds of the model.                                                    *)
(***************************************************************************)
MaxLen == 6       \* longest input sequence of SpecAlgo
MaxPoints == 4    \* longest polygon an object of Spec may grow to
MaxOps == 2       \* most macros Spec lets the undo stack hold
MaxIndex == 4     \* highest point index of a handle in SpecGroup
MaxPos == 1       \* farthest position of the mouse in SpecMouse
MaxClicks == 1    \* most left presses the tool takes in SpecMouse

(***************************************************************************)
(* QPointF.  A coordinate is an exact rational <<numerator, denominator>>  *)
(* in lowest terms with a positive denominator, so that the sums, the      *)
(* division by a count and the halving the code performs are computed and  *)
(* not assumed.                                                            *)
(***************************************************************************)
Abs(a) == IF a < 0 THEN -a ELSE a

RECURSIVE GCD(_, _)
GCD(a, b) == IF b = 0 THEN a ELSE GCD(b, a % b)

Rat(num, den) ==
    LET g == GCD(Abs(num), den)
    IN  IF num = 0 THEN <<0, 1>> ELSE <<num \div g, den \div g>>

RatAdd(a, b) == Rat(a[1] * b[2] + b[1] * a[2], a[2] * b[2])
RatDiv(a, k) == Rat(a[1], a[2] * k)

QPointF(px, py) == [x |-> Rat(px, 1), y |-> Rat(py, 1)]
PointAdd(p, q) == [x |-> RatAdd(p.x, q.x), y |-> RatAdd(p.y, q.y)]
PointDiv(p, k) == [x |-> RatDiv(p.x, k), y |-> RatDiv(p.y, k)]

(***************************************************************************)
(* QVector<QPointF> (QPolygonF) with the code's 0-based indexes.           *)
(***************************************************************************)
at(s, i) == s[i + 1]
remove(s, i, count) ==
    [k \in 1..(Len(s) - count) |-> IF k <= i THEN s[k] ELSE s[k + count]]
replace(s, i, v) == [s EXCEPT ![i + 1] = v]
insertAt(s, i, v) ==
    [k \in 1..(Len(s) + 1) |->
        IF k <= i THEN s[k] ELSE IF k = i + 1 THEN v ELSE s[k - 1]]

(***************************************************************************)
(* RangeSet<int>: the ascending sequence of its ranges, each <<first,      *)
(* last>>.  begin() is position 1 and end() is position Len + 1.           *)
(***************************************************************************)
first(r) == r[1]
last(r) == r[2]
length(r) == r[2] - r[1] + 1

Covered(rs) == UNION {first(rs[k])..last(rs[k]) : k \in 1..Len(rs)}

\* the ranges that value touches: the one holding it, the one ending right
\* before it and the one starting right after it
rangesContaining(rs, value) ==
    {k \in 1..Len(rs) : first(rs[k]) <= value /\ value <= last(rs[k])}
rangesEndingBefore(rs, value) == {k \in 1..Len(rs) : last(rs[k]) = value - 1}
rangesStartingAfter(rs, value) == {k \in 1..Len(rs) : first(rs[k]) = value + 1}

\* faulty variant: a value between two ranges extends the lower one only
insertWithoutMerge(rs, value) ==
    LET before == rangesEndingBefore(rs, value)
        after == rangesStartingAfter(rs, value)
        below == Cardinality({k \in 1..Len(rs) : last(rs[k]) < value})
    IN  IF rangesContaining(rs, value) /= {} THEN rs
        ELSE IF before /= {}
        THEN LET b == CHOOSE k \in before : TRUE
             IN  [rs EXCEPT ![b] = <<first(rs[b]), value>>]
        ELSE IF after /= {}
        THEN LET a == CHOOSE k \in after : TRUE
             IN  [rs EXCEPT ![a] = <<value, last(rs[a])>>]
        ELSE SubSeq(rs, 1, below) \o <<<<value, value>>>>
                 \o SubSeq(rs, below + 1, Len(rs))

\* a value already held changes nothing; a value right after or right before
\* a range extends it, and joins the two ranges it comes to lie between; any
\* other value becomes a range of its own at its place in the order
insert(rs, value) ==
    LET before == rangesEndingBefore(rs, value)
        after == rangesStartingAfter(rs, value)
        below == Cardinality({k \in 1..Len(rs) : last(rs[k]) < value})
    IN  IF rangesContaining(rs, value) /= {} THEN rs
        ELSE IF before /= {} /\ after /= {}
        THEN LET b == CHOOSE k \in before : TRUE
                 a == CHOOSE k \in after : TRUE
             IN  SubSeq(rs, 1, b - 1) \o <<<<first(rs[b]), last(rs[a])>>>>
                     \o SubSeq(rs, a + 1, Len(rs))
        ELSE IF before /= {}
        THEN LET b == CHOOSE k \in before : TRUE
             IN  [rs EXCEPT ![b] = <<first(rs[b]), value>>]
        ELSE IF after /= {}
        THEN LET a == CHOOSE k \in after : TRUE
             IN  [rs EXCEPT ![a] = <<value, last(rs[a])>>]
        ELSE SubSeq(rs, 1, below) \o <<<<value, value>>>>
                 \o SubSeq(rs, below + 1, Len(rs))

RECURSIVE InsertAll(_, _)
InsertAll(rs, S) ==
    IF S = {} THEN rs
    ELSE LET v == CHOOSE w \in S : \A u \in S : w <= u
         IN  InsertAll(insert(rs, v), S \ {v})

(***************************************************************************)
(* deleteNodes, the removal loop: the ranges are removed back to front,    *)
(* it running from end() down to begin().                                  *)
(***************************************************************************)
\* faulty variant: only the first point of the range is removed
removeSliceOnePoint(polygon, r) == remove(polygon, first(r), 1)

removeSlice(polygon, r) == remove(polygon, first(r), length(r))

RECURSIVE removeRanges(_, _, _, _)
removeRanges(polygon, indexRanges, it, begin) ==
    LET cur == it - 1
        newPolygon == removeSlice(polygon, indexRanges[cur])
    IN  IF cur /= begin
        THEN removeRanges(newPolygon, indexRanges, cur, begin)
        ELSE newPolygon

(***************************************************************************)
(* joinPolygonNodes.                                                       *)
(***************************************************************************)
RECURSIVE sumPoints(_, _, _, _, _)
sumPoints(polygon, i, hi, indexOffset, averagePoint) ==
    IF i > hi THEN averagePoint
    ELSE sumPoints(polygon, i + 1, hi, indexOffset,
                   PointAdd(averagePoint, at(polygon, i - indexOffset)))

joinTooFewPoints(n) == n < 3

rangesConnect(indexRanges, n) ==
    /\ first(indexRanges[1]) = 0
    /\ last(indexRanges[Len(indexRanges)]) = n - 1

\* faulty variant: the whole-polygon selection is left alone on closed shapes only
selectionSpansWholePolygonWhenClosed(firstRange, lastRange, closed) ==
    firstRange = lastRange /\ closed

selectionSpansWholePolygon(firstRange, lastRange, closed) ==
    firstRange = lastRange

\* faulty variant: the first and last range are joined on open shapes as well
joinFirstAndLastAlways(closed) == TRUE

joinFirstAndLast(closed) == closed

\* faulty variant: the sum over both ranges is divided by the first range's length
wrapAveragePointFirstLength(polygon, firstRange, lastRange) ==
    LET s1 == sumPoints(polygon, first(firstRange), last(firstRange), 0,
                        QPointF(0, 0))
        s2 == sumPoints(polygon, first(lastRange), last(lastRange), 0, s1)
    IN  PointDiv(s2, length(firstRange))

wrapAveragePoint(polygon, firstRange, lastRange) ==
    LET s1 == sumPoints(polygon, first(firstRange), last(firstRange), 0,
                        QPointF(0, 0))
        s2 == sumPoints(polygon, first(lastRange), last(lastRange), 0, s1)
    IN  PointDiv(s2, length(firstRange) + length(lastRange))

wrapResult(polygon, firstRange, lastRange) ==
    LET r1 == remove(polygon, first(lastRange), length(lastRange))
        r2 == remove(r1, 1, length(firstRange) - 1)
    IN  replace(r2, 0, wrapAveragePoint(polygon, firstRange, lastRange))

\* faulty variant: the sum is divided by one more than the range's length
rangeAveragePointOneMore(polygon, r, indexOffset) ==
    PointDiv(sumPoints(polygon, first(r), last(r), indexOffset, QPointF(0, 0)),
             length(r) + 1)

rangeAveragePoint(polygon, r, indexOffset) ==
    PointDiv(sumPoints(polygon, first(r), last(r), indexOffset, QPointF(0, 0)),
             length(r))

\* faulty variant: the average is stored but the other points of the range stay
joinRangeKeepsPoints(polygon, result, r, indexOffset) ==
    replace(result, first(r) - indexOffset,
            rangeAveragePoint(polygon, r, indexOffset))

\* faulty variant: the range is removed at its indexes in the input sequence
joinRangeUnshifted(polygon, result, r, indexOffset) ==
    replace(remove(result, first(r) + 1, length(r) - 1), first(r),
            rangeAveragePoint(polygon, r, indexOffset))

joinRange(polygon, result, r, indexOffset) ==
    replace(remove(result, first(r) + 1 - indexOffset, length(r) - 1),
            first(r) - indexOffset,
            rangeAveragePoint(polygon, r, indexOffset))

RECURSIVE joinRanges(_, _, _, _, _, _)
joinRanges(polygon, result, indexRanges, it, firstRange, indexOffset) ==
    IF it = firstRange THEN result
    ELSE joinRanges(polygon,
                    joinRange(polygon, result, indexRanges[it - 1], indexOffset),
                    indexRanges, it - 1, firstRange, indexOffset)

\* faulty variant: no early return for short sequences or a whole-polygon selection
joinPolygonNodesNoEarlyReturn(polygon, indexRanges, closed) ==
    IF indexRanges = <<>> THEN polygon
    ELSE joinRanges(polygon, polygon, indexRanges, Len(indexRanges) + 1, 1, 0)

joinPolygonNodes(polygon, indexRanges, closed) ==
    LET n == Len(polygon)
        firstRange == 1
        end == Len(indexRanges) + 1
        lastRange == end - 1
    IN  IF indexRanges = <<>> THEN polygon
        ELSE IF joinTooFewPoints(n) THEN polygon
        ELSE IF rangesConnect(indexRanges, n)
        THEN IF selectionSpansWholePolygon(firstRange, lastRange, closed)
             THEN polygon
             ELSE IF joinFirstAndLast(closed)
             THEN joinRanges(polygon,
                             wrapResult(polygon, indexRanges[firstRange],
                                        indexRanges[lastRange]),
                             indexRanges, end - 1, firstRange + 1,
                             length(indexRanges[firstRange]) - 1)
             ELSE joinRanges(polygon, polygon, indexRanges, end, firstRange, 0)
        ELSE joinRanges(polygon, polygon, indexRanges, end, firstRange, 0)

(***************************************************************************)
(* splitPolygonSegments.                                                   *)
(***************************************************************************)
splitPoint(a, b) == PointDiv(PointAdd(a, b), 2)

\* faulty variant: the seam point is added on open shapes too
splitSeamIgnoresClosed(polygon, indexRanges, closed) ==
    IF rangesConnect(indexRanges, Len(polygon))
    THEN Append(polygon, splitPoint(polygon[1], polygon[Len(polygon)]))
    ELSE polygon

splitSeam(polygon, indexRanges, closed) ==
    IF closed /\ rangesConnect(indexRanges, Len(polygon))
    THEN Append(polygon, splitPoint(polygon[1], polygon[Len(polygon)]))
    ELSE polygon

\* faulty variant: the split point is inserted one position too far
RECURSIVE splitRangeOneTooFar(_, _, _)
splitRangeOneTooFar(result, i, lo) ==
    IF i > lo
    THEN splitRangeOneTooFar(insertAt(result, i + 1,
                                      splitPoint(at(result, i), at(result, i - 1))),
                             i - 1, lo)
    ELSE result

\* faulty variant: no split point between two points at the same place
RECURSIVE splitRangeDistinctOnly(_, _, _)
splitRangeDistinctOnly(result, i, lo) ==
    IF i > lo
    THEN splitRangeDistinctOnly(
             IF at(result, i) = at(result, i - 1) THEN result
             ELSE insertAt(result, i,
                           splitPoint(at(result, i), at(result, i - 1))),
             i - 1, lo)
    ELSE result

RECURSIVE splitRange(_, _, _)
splitRange(result, i, lo) ==
    IF i > lo
    THEN splitRange(insertAt(result, i,
                             splitPoint(at(result, i), at(result, i - 1))),
                    i - 1, lo)
    ELSE result

\* faulty variant: only the last range is split
splitRangesLastRangeOnly(result, indexRanges, it, firstRange) ==
    splitRange(result, last(indexRanges[it - 1]), first(indexRanges[it - 1]))

RECURSIVE splitRanges(_, _, _, _)
splitRanges(result, indexRanges, it, firstRange) ==
    LET cur == it - 1
        r == indexRanges[cur]
        newResult == splitRange(result, last(r), first(r))
    IN  IF cur /= firstRange
        THEN splitRanges(newResult, indexRanges, cur, firstRange)
        ELSE newResult

\* faulty variant: an empty Range-Set still closes the loop with a seam point
splitPolygonSegmentsSeamOnEmpty(polygon, indexRanges, closed) ==
    IF indexRanges = <<>>
    THEN IF closed /\ polygon /= <<>>
         THEN Append(polygon, splitPoint(polygon[1], polygon[Len(polygon)]))
         ELSE polygon
    ELSE splitRanges(splitSeam(polygon, indexRanges, closed), indexRanges,
                     Len(indexRanges) + 1, 1)

splitPolygonSegments(polygon, indexRanges, closed) ==
    IF indexRanges = <<>> THEN polygon
    ELSE splitRanges(splitSeam(polygon, indexRanges, closed), indexRanges,
                     Len(indexRanges) + 1, 1)

(***************************************************************************)
(* The element accesses the three algorithms make, each with the size of   *)
(* the sequence it addresses at that step.                                 *)
(***************************************************************************)
Access(op, i, count, size) == [op |-> op, i |-> i, count |-> count, size |-> size]

\* QVector: at and replace need 0 <= i < size, insert needs 0 <= i <= size,
\* remove needs 0 <= i, 0 <= count and i + count <= size
inBounds(a) ==
    CASE a.op = "at" -> 0 <= a.i /\ a.i < a.size
      [] a.op = "replace" -> 0 <= a.i /\ a.i < a.size
      [] a.op = "insert" -> 0 <= a.i /\ a.i <= a.size
      [] a.op = "remove" -> 0 <= a.i /\ 0 <= a.count /\ a.i + a.count <= a.size

\* faulty variant: the ranges are removed front to back
RECURSIVE removeRangesAccessesFrontToBack(_, _, _, _)
removeRangesAccessesFrontToBack(polygon, indexRanges, it, begin) ==
    LET r == indexRanges[begin]
        a == {Access("remove", first(r), length(r), Len(polygon))}
    IN  IF begin + 1 /= it
        THEN a \cup removeRangesAccessesFrontToBack(removeSlice(polygon, r),
                                                    indexRanges, it, begin + 1)
        ELSE a

RECURSIVE removeRangesAccesses(_, _, _, _)
removeRangesAccesses(polygon, indexRanges, it, begin) ==
    LET cur == it - 1
        r == indexRanges[cur]
        a == {Access("remove", first(r), length(r), Len(polygon))}
    IN  IF cur /= begin
        THEN a \cup removeRangesAccesses(removeSlice(polygon, r), indexRanges,
                                         cur, begin)
        ELSE a

\* the reads of an averaging loop: polygon.at(i - indexOffset)
sumPointsAccesses(polygon, r, indexOffset) ==
    {Access("at", i - indexOffset, 1, Len(polygon)) : i \in first(r)..last(r)}

wrapResultAccesses(polygon, firstRange, lastRange) ==
    LET r1 == remove(polygon, first(lastRange), length(lastRange))
        r2 == remove(r1, 1, length(firstRange) - 1)
    IN  sumPointsAccesses(polygon, firstRange, 0)
        \cup sumPointsAccesses(polygon, lastRange, 0)
        \cup {Access("remove", first(lastRange), length(lastRange), Len(polygon)),
              Access("remove", 1, length(firstRange) - 1, Len(r1)),
              Access("replace", 0, 1, Len(r2))}

joinRangeAccesses(polygon, result, r, indexOffset) ==
    sumPointsAccesses(polygon, r, indexOffset)
    \cup {Access("remove", first(r) + 1 - indexOffset, length(r) - 1, Len(result)),
          Access("replace", first(r) - indexOffset, 1,
                 Len(result) - (length(r) - 1))}

RECURSIVE joinRangesAccesses(_, _, _, _, _, _)
joinRangesAccesses(polygon, result, indexRanges, it, firstRange, indexOffset) ==
    IF it = firstRange THEN {}
    ELSE joinRangeAccesses(polygon, result, indexRanges[it - 1], indexOffset)
         \cup joinRangesAccesses(polygon,
                                 joinRange(polygon, result, indexRanges[it - 1],
                                           indexOffset),
                                 indexRanges, it - 1, firstRange, indexOffset)

joinPolygonNodesAccesses(polygon, indexRanges, closed) ==
    LET n == Len(polygon)
        firstRange == 1
        end == Len(indexRanges) + 1
        lastRange == end - 1
    IN  IF indexRanges = <<>> THEN {}
        ELSE IF joinTooFewPoints(n) THEN {}
        ELSE IF rangesConnect(indexRanges, n)
        THEN IF selectionSpansWholePolygon(firstRange, lastRange, closed)
             THEN {}
             ELSE IF joinFirstAndLast(closed)
             THEN wrapResultAccesses(polygon, indexRanges[firstRange],
                                     indexRanges[lastRange])
                  \cup joinRangesAccesses(polygon,
                           wrapResult(polygon, indexRanges[firstRange],
                                      indexRanges[lastRange]),
                           indexRanges, end - 1, firstRange + 1,
                           length(indexRanges[firstRange]) - 1)
             ELSE joinRangesAccesses(polygon, polygon, indexRanges, end,
                                     firstRange, 0)
        ELSE joinRangesAccesses(polygon, polygon, indexRanges, end, firstRange, 0)

\* result.first() and result.last() of the seam
splitSeamAccesses(polygon, indexRanges, closed) ==
    IF closed /\ rangesConnect(indexRanges, Len(polygon))
    THEN {Access("at", 0, 1, Len(polygon)),
          Access("at", Len(polygon) - 1, 1, Len(polygon))}
    ELSE {}

RECURSIVE splitRangeAccesses(_, _, _)
splitRangeAccesses(result, i, lo) ==
    IF i > lo
    THEN {Access("at", i, 1, Len(result)), Access("at", i - 1, 1, Len(result)),
          Access("insert", i, 1, Len(result))}
         \cup splitRangeAccesses(insertAt(result, i, QPointF(0, 0)), i - 1, lo)
    ELSE {}

RECURSIVE splitRangesAccesses(_, _, _, _)
splitRangesAccesses(result, indexRanges, it, firstRange) ==
    LET cur == it - 1
        r == indexRanges[cur]
        a == splitRangeAccesses(result, last(r), first(r))
    IN  IF cur /= firstRange
        THEN a \cup splitRangesAccesses(splitRange(result, last(r), first(r)),
                                        indexRanges, cur, firstRange)
        ELSE a

splitPolygonSegmentsAccesses(polygon, indexRanges, closed) ==
    IF indexRanges = <<>> THEN {}
    ELSE splitSeamAccesses(polygon, indexRanges, closed)
         \cup splitRangesAccesses(splitSeam(polygon, indexRanges, closed),
                                  indexRanges, Len(indexRanges) + 1, 1)

(***************************************************************************)
(* SpecAlgo: every input within the bounds, then one algorithm applied.    *)
(***************************************************************************)
PointSet == {QPointF(0, 0), QPointF(8, 4)}

Polygons == UNION {[1..n -> PointSet] : n \in 0..MaxLen}

RangeSetsBelow(n) == {InsertAll(<<>>, S) : S \in SUBSET (0..(n - 1))}

\* no pointer, no handle, nothing pressed: the tool as constructed
NoHandle == <<>>
NoItem == 0

MouseIdle ==
    /\ active = FALSE
    /\ cursor = 0
    /\ clicks = 0
    /\ selectedObjectItems = {}
    /\ handleSelected = {}
    /\ mHandles = <<>>
    /\ mLeftControlPointHandles = <<>>
    /\ mRightControlPointHandles = <<>>
    /\ mControlPointConnectors = <<>>
    /\ mMode = "NoMode"
    /\ mMousePressed = FALSE
    /\ mStart = 0
    /\ mClickedHandle = NoHandle
    /\ mClickedControlPointHandle = NoHandle
    /\ mClickedObjectItem = NoItem
    /\ mOldHandlePositions = <<>>
    /\ mOldPolygons = <<>>
    /\ mOldLeftControlPoints = <<>>
    /\ mOldRightControlPoints = <<>>

GroupIdle ==
    /\ groupHandles = {}
    /\ groupResult = <<>>

ToolIdle ==
    /\ objects = <<>>
    /\ mSelectedHandles = {}
    /\ undoStack = <<>>
    /\ crashed = FALSE

InitAlgo ==
    /\ inPolygon \in Polygons
    /\ inRanges \in RangeSetsBelow(Len(inPolygon))
    /\ inClosed \in BOOLEAN
    /\ algo = "none"
    /\ outPolygon = <<>>
    /\ ToolIdle
    /\ GroupIdle
    /\ MouseIdle

ApplyDelete ==
    /\ algo = "none"
    /\ inRanges /= <<>>
    /\ algo' = "delete"
    /\ outPolygon' = removeRanges(inPolygon, inRanges, Len(inRanges) + 1, 1)
    /\ UNCHANGED <<inPolygon, inRanges, inClosed, toolVars, groupVars, mouseVars>>

ApplyJoin ==
    /\ algo = "none"
    /\ algo' = "join"
    /\ outPolygon' = joinPolygonNodes(inPolygon, inRanges, inClosed)
    /\ UNCHANGED <<inPolygon, inRanges, inClosed, toolVars, groupVars, mouseVars>>

ApplySplit ==
    /\ algo = "none"
    /\ algo' = "split"
    /\ outPolygon' = splitPolygonSegments(inPolygon, inRanges, inClosed)
    /\ UNCHANGED <<inPolygon, inRanges, inClosed, toolVars, groupVars, mouseVars>>

NextAlgo == ApplyDelete \/ ApplyJoin \/ ApplySplit

SpecAlgo == InitAlgo /\ [][NextAlgo]_vars

(***************************************************************************)
(* Spec: the tool.  A map object carries its shape, its polygon and its    *)
(* two control point sequences; a point handle is <<object, pointIndex>>.  *)
(* Every object that is not removed is selected in the scene, so it has    *)
(* one point handle per polygon point.  A map object is named by a number  *)
(* standing for its address: QMap iterates its keys in ascending order.    *)
(***************************************************************************)
MapObjects == {1}

Shapes == {"Polygon", "Polyline", "Bezierline", "Bezierloop"}

isBezier(shape) == shape = "Bezierline" \/ shape = "Bezierloop"
isClosed(shape) == shape = "Polygon" \/ shape = "Bezierloop"
\* the test splitSegments makes before it splits the control points
splitsControlPoints(shape) == shape = "Bezierline" \/ shape = "Bezierline"

InitPolygon(n) == [i \in 1..n |-> QPointF(8 * i, 4 * i * i)]
InitLeftControlPoints(n) == [i \in 1..n |-> QPointF(8 * i - 2, 4 * i * i)]
InitRightControlPoints(n) == [i \in 1..n |-> QPointF(8 * i + 2, 4 * i * i)]

MapObject(shape, n) ==
    [shape |-> shape,
     polygon |-> InitPolygon(n),
     leftControlPoints |-> IF isBezier(shape) THEN InitLeftControlPoints(n)
                           ELSE <<>>,
     rightControlPoints |-> IF isBezier(shape) THEN InitRightControlPoints(n)
                            ELSE <<>>,
     removed |-> FALSE]

AlgoIdle ==
    /\ inPolygon = <<>>
    /\ inRanges = <<>>
    /\ inClosed = FALSE
    /\ algo = "none"
    /\ outPolygon = <<>>

Init ==
    /\ \E shape \in [MapObjects -> Shapes], n \in [MapObjects -> 2..(MaxPoints - 1)] :
          objects = [o \in MapObjects |-> MapObject(shape[o], n[o])]
    /\ mSelectedHandles = {}
    /\ undoStack = <<>>
    /\ crashed = FALSE
    /\ AlgoIdle
    /\ GroupIdle
    /\ MouseIdle

PointHandles(objs) ==
    {h \in (DOMAIN objs) \X (0..(MaxPoints - 1)) :
        /\ ~objs[h[1]].removed
        /\ h[2] < Len(objs[h[1]].polygon)}

\* updateHandles, as far as the selection goes: the handles of objects that
\* are gone and the handles beyond the polygon's size are destroyed and leave
\* mSelectedHandles.
updateHandles(objs, selected) == selected \cap PointHandles(objs)

\* updateHandles reads leftControlPoints.at(i) and rightControlPoints.at(i)
\* for every point handle of a bezier: out of range when a control point
\* sequence is shorter than the polygon.
updateHandlesOutOfRange(objs) ==
    \E o \in DOMAIN objs :
        /\ ~objs[o].removed
        /\ isBezier(objs[o].shape)
        /\ \/ Len(objs[o].leftControlPoints) < Len(objs[o].polygon)
           \/ Len(objs[o].rightControlPoints) < Len(objs[o].polygon)

\* faulty variant: the index is inserted into a fresh RangeSet every time
insertPointIndexIntoFresh(result, handle) ==
    [o \in (DOMAIN result) \cup {handle[1]} |->
        IF o = handle[1] THEN insert(<<>>, handle[2]) ELSE result[o]]

\* the body of the loop: result[handle->mapObject()], an empty RangeSet when
\* the object has no entry yet, gets handle->pointIndex() inserted
insertPointIndex(result, handle) ==
    LET pointIndexes == IF handle[1] \in DOMAIN result THEN result[handle[1]]
                        ELSE <<>>
    IN  [o \in (DOMAIN result) \cup {handle[1]} |->
            IF o = handle[1] THEN insert(pointIndexes, handle[2])
            ELSE result[o]]

\* the loop over the handles, here by ascending object and point index
RECURSIVE insertPointIndexes(_, _)
insertPointIndexes(result, handles) ==
    IF handles = {} THEN result
    ELSE LET handle == CHOOSE h \in handles :
                           \A g \in handles :
                               \/ h[1] < g[1]
                               \/ h[1] = g[1] /\ h[2] <= g[2]
         IN  insertPointIndexes(insertPointIndex(result, handle),
                                handles \ {handle})

groupIndexesByObject(handles) == insertPointIndexes(<<>>, handles)

\* an index of the Range-Set lies beyond the sequence
indexOutOfRange(sequence, indexRanges) ==
    \E i \in Covered(indexRanges) : i >= Len(sequence)

RemoveMapObject(o) ==
    [type |-> "RemoveMapObject", object |-> o, oldPolygon |-> <<>>,
     oldLeftControlPoints |-> <<>>, oldRightControlPoints |-> <<>>]
ChangePolygon(o, oldPolygon) ==
    [type |-> "ChangePolygon", object |-> o, oldPolygon |-> oldPolygon,
     oldLeftControlPoints |-> <<>>, oldRightControlPoints |-> <<>>]
\* faulty variant: the record holds the two control point sequences swapped
ChangeBezierSwapped(o, oldPolygon, oldLeftControlPoints, oldRightControlPoints) ==
    [type |-> "ChangeBezier", object |-> o, oldPolygon |-> oldPolygon,
     oldLeftControlPoints |-> oldRightControlPoints,
     oldRightControlPoints |-> oldLeftControlPoints]
ChangeBezier(o, oldPolygon, oldLeftControlPoints, oldRightControlPoints) ==
    [type |-> "ChangeBezier", object |-> o, oldPolygon |-> oldPolygon,
     oldLeftControlPoints |-> oldLeftControlPoints,
     oldRightControlPoints |-> oldRightControlPoints]

setBezier(object, newPolygon, newLeftControlPoints, newRightControlPoints) ==
    [object EXCEPT !.polygon = newPolygon,
                   !.leftControlPoints = newLeftControlPoints,
                   !.rightControlPoints = newRightControlPoints]
setPolygon(object, newPolygon) == [object EXCEPT !.polygon = newPolygon]

Outcome(object, commands) ==
    [object |-> object, commands |-> commands, crash |-> FALSE]
Crash(object) == [object |-> object, commands |-> <<>>, crash |-> TRUE]

\* deleteNodes, the body of its loop for one object.  QPolygonF::remove
\* beyond the end of a control point sequence ends the process.
deleteObject(object, o, indexRanges) ==
    LET end == Len(indexRanges) + 1
        newPolygon == removeRanges(object.polygon, indexRanges, end, 1)
    IN  IF isBezier(object.shape)
           /\ \/ indexOutOfRange(object.leftControlPoints, indexRanges)
              \/ indexOutOfRange(object.rightControlPoints, indexRanges)
        THEN Crash(object)
        ELSE IF Len(newPolygon) < 2
        THEN Outcome([object EXCEPT !.removed = TRUE], <<RemoveMapObject(o)>>)
        ELSE IF isBezier(object.shape)
        THEN Outcome(setBezier(object, newPolygon,
                               removeRanges(object.leftControlPoints,
                                            indexRanges, end, 1),
                               removeRanges(object.rightControlPoints,
                                            indexRanges, end, 1)),
                     <<ChangeBezier(o, object.polygon, object.leftControlPoints,
                                    object.rightControlPoints)>>)
        ELSE Outcome(setPolygon(object, newPolygon),
                     <<ChangePolygon(o, object.polygon)>>)

\* joinPolygonNodes on a control point sequence of at least 3 points reads
\* and removes beyond its end when an index lies beyond it
joinOutOfRange(sequence, indexRanges) ==
    Len(sequence) >= 3 /\ indexOutOfRange(sequence, indexRanges)

\* faulty variant: the joined polygon is committed whether it is shorter or not
joinObjectAlwaysCommits(object, o, indexRanges) ==
    Outcome(setPolygon(object,
                       joinPolygonNodes(object.polygon, indexRanges,
                                        isClosed(object.shape))),
            <<ChangePolygon(o, object.polygon)>>)

\* joinNodes, the body of its loop for one object
joinObject(object, o, indexRanges) ==
    LET closed == isClosed(object.shape)
        oldPolygon == object.polygon
        newPolygon == joinPolygonNodes(oldPolygon, indexRanges, closed)
    IN  IF Len(newPolygon) < Len(oldPolygon)
        THEN IF isBezier(object.shape)
             THEN IF \/ joinOutOfRange(object.leftControlPoints, indexRanges)
                     \/ joinOutOfRange(object.rightControlPoints, indexRanges)
                  THEN Crash(object)
                  ELSE Outcome(setBezier(object, newPolygon,
                                   joinPolygonNodes(object.leftControlPoints,
                                                    indexRanges, closed),
                                   joinPolygonNodes(object.rightControlPoints,
                                                    indexRanges, closed)),
                               <<ChangeBezier(o, oldPolygon,
                                              object.leftControlPoints,
                                              object.rightControlPoints)>>)
             ELSE Outcome(setPolygon(object, newPolygon),
                          <<ChangePolygon(o, oldPolygon)>>)
        ELSE Outcome(object, <<>>)

\* splitSegments, the body of its loop for one object
splitObject(object, o, indexRanges) ==
    LET closed == isClosed(object.shape)
        oldPolygon == object.polygon
        newPolygon == splitPolygonSegments(oldPolygon, indexRanges, closed)
    IN  IF Len(newPolygon) > Len(oldPolygon)
        THEN IF splitsControlPoints(object.shape)
             THEN IF \/ indexOutOfRange(object.leftControlPoints, indexRanges)
                     \/ indexOutOfRange(object.rightControlPoints, indexRanges)
                  THEN Crash(object)
                  ELSE Outcome(setBezier(object, newPolygon,
                                   splitPolygonSegments(object.leftControlPoints,
                                                        indexRanges, closed),
                                   splitPolygonSegments(object.rightControlPoints,
                                                        indexRanges, closed)),
                               <<ChangeBezier(o, oldPolygon,
                                              object.leftControlPoints,
                                              object.rightControlPoints)>>)
             ELSE Outcome(setPolygon(object, newPolygon),
                          <<ChangePolygon(o, oldPolygon)>>)
        ELSE Outcome(object, <<>>)

perObject(op, object, o, indexRanges) ==
    CASE op = "deleteNodes" -> deleteObject(object, o, indexRanges)
      [] op = "joinNodes" -> joinObject(object, o, indexRanges)
      [] op = "splitSegments" -> splitObject(object, o, indexRanges)

\* the loop over the QMap of an operation, keys ascending, up to a crash
RECURSIVE forEachObject(_, _, _, _, _)
forEachObject(op, objs, commands, keys, p) ==
    IF keys = {} THEN [objects |-> objs, commands |-> commands, crash |-> FALSE]
    ELSE LET o == CHOOSE k \in keys : \A j \in keys : k <= j
             r == perObject(op, objs[o], o, p[o])
         IN  IF r.crash
             THEN [objects |-> objs, commands |-> commands, crash |-> TRUE]
             ELSE forEachObject(op, [objs EXCEPT ![o] = r.object],
                                commands \o r.commands, keys \ {o}, p)

Macro(text, commands) == [text |-> text, commands |-> commands]

\* what an operation leaves behind: the geometry set, the macro pushed when
\* one was begun, the selection after the updateHandles that every pushed
\* command triggers, and whether the process is still alive
Finish(text, r, macroStarted) ==
    /\ objects' = r.objects
    /\ undoStack' = IF macroStarted /\ ~r.crash
                    THEN Append(undoStack, Macro(text, r.commands))
                    ELSE undoStack
    /\ mSelectedHandles' = IF r.commands = <<>> THEN mSelectedHandles
                           ELSE updateHandles(r.objects, mSelectedHandles)
    /\ crashed' \in IF r.crash THEN {TRUE}
                    ELSE IF r.commands /= <<>> /\ updateHandlesOutOfRange(r.objects)
                    THEN {FALSE, TRUE}
                    ELSE {FALSE}
    /\ UNCHANGED <<algoVars, groupVars, mouseVars>>

Running == ~crashed /\ Len(undoStack) < MaxOps

setSelectedHandles ==
    /\ Running
    /\ \E handles \in SUBSET PointHandles(objects) :
          mSelectedHandles' = handles
    /\ UNCHANGED <<objects, undoStack, crashed, algoVars, groupVars, mouseVars>>

\* faulty variant: no early return on an empty selection
deleteNodesNoEarlyReturn ==
    /\ Running
    /\ LET p == groupIndexesByObject(mSelectedHandles)
           r == forEachObject("deleteNodes", objects, <<>>, DOMAIN p, p)
       IN  Finish("Delete Nodes", r, TRUE)

deleteNodes ==
    /\ Running
    /\ IF mSelectedHandles = {} THEN UNCHANGED vars
       ELSE LET p == groupIndexesByObject(mSelectedHandles)
                r == forEachObject("deleteNodes", objects, <<>>, DOMAIN p, p)
            IN  Finish("Delete Nodes", r, TRUE)

joinNodes ==
    /\ Running
    /\ IF Cardinality(mSelectedHandles) < 2 THEN UNCHANGED vars
       ELSE LET p == groupIndexesByObject(mSelectedHandles)
                r == forEachObject("joinNodes", objects, <<>>, DOMAIN p, p)
            IN  Finish("Join Nodes", r, r.commands /= <<>>)

splitSegments ==
    /\ Running
    /\ IF Cardinality(mSelectedHandles) < 2 THEN UNCHANGED vars
       ELSE LET p == groupIndexesByObject(mSelectedHandles)
                r == forEachObject("splitSegments", objects, <<>>, DOMAIN p, p)
            IN  /\ \A o \in DOMAIN r.objects :
                      Len(r.objects[o].polygon) <= MaxPoints
                /\ Finish("Split Segments", r, r.commands /= <<>>)

Next == setSelectedHandles \/ deleteNodes \/ joinNodes \/ splitSegments

Spec == Init /\ [][Next]_vars

(***************************************************************************)
(* SpecGroup: the loop of groupIndexesByObject, one handle after the       *)
(* other in any order, a handle gone through before among them.            *)
(***************************************************************************)
GroupObjects == {1, 2}

GroupPointHandles == GroupObjects \X (0..MaxIndex)

InitGroup ==
    /\ AlgoIdle
    /\ ToolIdle
    /\ GroupIdle
    /\ MouseIdle

InsertPointIndex ==
    /\ \E handle \in GroupPointHandles :
          /\ groupHandles' = groupHandles \cup {handle}
          /\ groupResult' = insertPointIndex(groupResult, handle)
    /\ UNCHANGED <<algoVars, toolVars, mouseVars>>

NextGroup == InsertPointIndex

SpecGroup == InitGroup /\ [][NextGroup]_vars

(***************************************************************************)
(* SpecMouse: the tool under the mouse.  The scene holds one item per map  *)
(* object that is not removed; the tool keeps, per selected item, lists of *)
(* point handles <<item, pointIndex>>, of control point handles and of     *)
(* connectors <<item, pointIndex, isRightControlPoint>>.  The view shows   *)
(* the scene unscaled and the mouse moves along one line, so a position is *)
(* a number, in the scene and on the screen alike; objects sit at the      *)
(* origin and nothing snaps to the grid.  A pointer whose handle has been  *)
(* deleted is DanglingHandle: what is done through it is undefined, the    *)
(* process dies of it or carries on.                                       *)
(***************************************************************************)
MouseObjects == {1}

Positions == 0..MaxPos

Buttons == {"LeftButton", "RightButton", "MidButton"}

\* QApplication::startDragDistance()
startDragDistance == 1

DanglingHandle == <<0, -1>>
DanglingControlPointHandle == <<0, -1, FALSE>>

\* a map object of SpecMouse: a tile object has a cell that is not empty
MouseObject(shape, n, cell) ==
    [shape |-> shape,
     polygon |-> InitPolygon(n),
     leftControlPoints |-> IF isBezier(shape) THEN InitLeftControlPoints(n)
                           ELSE <<>>,
     rightControlPoints |-> IF isBezier(shape) THEN InitRightControlPoints(n)
                            ELSE <<>>,
     removed |-> FALSE,
     cell |-> cell]

RatNeg(a) == <<-a[1], a[2]>>
PointSub(p, q) == [x |-> RatAdd(p.x, RatNeg(q.x)), y |-> RatAdd(p.y, RatNeg(q.y))]

Range(list) == {list[i] : i \in DOMAIN list}

\* every handle of a QMap<MapObjectItem*, QList<...> >
handlesOf(map) == UNION {Range(map[item]) : item \in DOMAIN map}

\* QMap::value: the list of an item, an empty list when it has none
valueOf(map, item) == IF item \in DOMAIN map THEN map[item] ELSE <<>>

\* the tool as a record: what its handlers read and write
Tool ==
    [objects |-> objects,
     undoStack |-> undoStack,
     selectedObjectItems |-> selectedObjectItems,
     mHandles |-> mHandles,
     mLeftControlPointHandles |-> mLeftControlPointHandles,
     mRightControlPointHandles |-> mRightControlPointHandles,
     mControlPointConnectors |-> mControlPointConnectors,
     handleSelected |-> handleSelected,
     mSelectedHandles |-> mSelectedHandles,
     mMode |-> mMode,
     mMousePressed |-> mMousePressed,
     mStart |-> mStart,
     mClickedHandle |-> mClickedHandle,
     mClickedControlPointHandle |-> mClickedControlPointHandle,
     mClickedObjectItem |-> mClickedObjectItem,
     mOldHandlePositions |-> mOldHandlePositions,
     mOldPolygons |-> mOldPolygons,
     mOldLeftControlPoints |-> mOldLeftControlPoints,
     mOldRightControlPoints |-> mOldRightControlPoints,
     menu |-> "none",    \* the menu a press has opened   
     ub |-> FALSE,       \* something undefined has been done
     crash |-> FALSE]    \* the process has died

\* undefined behaviour; a null pointer dereferenced
Undefined(s) == [s EXCEPT !.ub = TRUE]
Died(s) == [s EXCEPT !.crash = TRUE]

(***************************************************************************)
(* setSelectedHandles and updateHandles.                                   *)
(***************************************************************************)
\* setSelectedHandles: the handles that leave the selection lose their
\* flag, those that enter it get it, through the pointers of both sets
setSelectedHandlesOn(s, handles) ==
    LET leaving == s.mSelectedHandles \ handles
        entering == handles \ s.mSelectedHandles
    IN  [s EXCEPT !.handleSelected = (@ \ leaving)
                                     \cup (entering \ {DanglingHandle}),
                  !.mSelectedHandles = handles,
                  !.ub = @ \/ DanglingHandle \in (leaving \cup entering)]

setSelectedHandle(s, handle) == setSelectedHandlesOn(s, {handle})

\* "Create missing handles" and "Remove superfluous handles", point handles
pointHandlesAfter(item, object, pointHandles) ==
    [i \in 1..Len(object.polygon) |->
        IF i <= Len(pointHandles) THEN pointHandles[i] ELSE <<item, i - 1>>]

\* the same two loops, the left or the right control point handles: one is
\* appended per point handle created and one taken per point handle removed
controlPointHandlesAfter(item, object, pointHandles, handles, isRight) ==
    LET missing == Len(object.polygon) - Len(pointHandles)
    IN  IF ~isBezier(object.shape) THEN handles
        ELSE IF missing >= 0
        THEN handles \o [j \in 1..missing |->
                            <<item, Len(handles) + j - 1, isRight>>]
        ELSE SubSeq(handles, 1, Len(handles) + missing)

\* faulty variant: one connector per point handle created
controlPointConnectorsAfterOnePerPoint(item, object, pointHandles, left, right, connectors) ==
    LET missing == Len(object.polygon) - Len(pointHandles)
    IN  IF ~isBezier(object.shape) THEN connectors
        ELSE IF missing >= 0
        THEN connectors \o [k \in 1..missing |->
                               <<item, Len(left) + k - 1, FALSE>>]
        ELSE SubSeq(connectors, 1, Len(connectors) + 2 * missing)

\* the same two loops, the connectors: a left and a right one per point
controlPointConnectorsAfter(item, object, pointHandles, left, right, connectors) ==
    LET missing == Len(object.polygon) - Len(pointHandles)
    IN  IF ~isBezier(object.shape) THEN connectors
        ELSE IF missing >= 0
        THEN connectors \o
             [k \in 1..(2 * missing) |->
                 IF k % 2 = 1 THEN <<item, Len(left) + (k - 1) \div 2, FALSE>>
                 ELSE <<item, Len(right) + (k - 2) \div 2, TRUE>>]
        ELSE SubSeq(connectors, 1, Len(connectors) + 2 * missing)

\* the items updateHandles gives handles: selected, and no tile objects
handleItems(s) ==
    {item \in s.selectedObjectItems : ~s.objects[item].cell}

\* a pointer after handles have been deleted
afterDelete(pointer, destroyed, dangling) ==
    IF pointer \in destroyed THEN dangling ELSE pointer

\* updateHandles: the handles of items no longer selected are deleted, those
\* of the selected items follow their polygons.  A deleted handle leaves
\* mSelectedHandles when its flag is set; no other pointer is reset.
updateHandlesOn(s) ==
    LET items == handleItems(s)
        keys(map) == ((DOMAIN map) \cap s.selectedObjectItems) \cup items
        pointHandles(item) == valueOf(s.mHandles, item)
        left(item) == valueOf(s.mLeftControlPointHandles, item)
        right(item) == valueOf(s.mRightControlPointHandles, item)
        newHandles ==
            [item \in keys(s.mHandles) |->
                IF item \in items
                THEN pointHandlesAfter(item, s.objects[item], pointHandles(item))
                ELSE s.mHandles[item]]
        newLeft ==
            [item \in keys(s.mLeftControlPointHandles) |->
                IF item \in items
                THEN controlPointHandlesAfter(item, s.objects[item],
                                              pointHandles(item), left(item),
                                              FALSE)
                ELSE s.mLeftControlPointHandles[item]]
        newRight ==
            [item \in keys(s.mRightControlPointHandles) |->
                IF item \in items
                THEN controlPointHandlesAfter(item, s.objects[item],
                                              pointHandles(item), right(item),
                                              TRUE)
                ELSE s.mRightControlPointHandles[item]]
        newConnectors ==
            [item \in keys(s.mControlPointConnectors) |->
                IF item \in items
                THEN controlPointConnectorsAfter(item, s.objects[item],
                         pointHandles(item), left(item), right(item),
                         valueOf(s.mControlPointConnectors, item))
                ELSE s.mControlPointConnectors[item]]
        destroyed == handlesOf(s.mHandles) \ handlesOf(newHandles)
        destroyedControl ==
            (handlesOf(s.mLeftControlPointHandles)
                 \cup handlesOf(s.mRightControlPointHandles))
            \ (handlesOf(newLeft) \cup handlesOf(newRight))
        removed == destroyed \cap s.handleSelected
        stale == (s.mSelectedHandles \ removed) \cap destroyed
    IN  [s EXCEPT
            !.mHandles = newHandles,
            !.mLeftControlPointHandles = newLeft,
            !.mRightControlPointHandles = newRight,
            !.mControlPointConnectors = newConnectors,
            !.handleSelected = @ \ destroyed,
            !.mSelectedHandles =
                (@ \ destroyed)
                \cup (IF stale = {} THEN {} ELSE {DanglingHandle}),
            !.mClickedHandle = afterDelete(@, destroyed, DanglingHandle),
            !.mClickedControlPointHandle =
                afterDelete(@, destroyedControl, DanglingControlPointHandle),
            !.ub = @ \/ updateHandlesOutOfRange(
                            [item \in items |-> s.objects[item]])]

\* activate: updateHandles, and the signals are connected
activateOn(s) == updateHandlesOn(s)

\* deactivate: every handle is deleted, the maps and mSelectedHandles are
\* cleared, the two clicked handles are reset
deactivateOn(s) ==
    [s EXCEPT !.mHandles = <<>>,
              !.mLeftControlPointHandles = <<>>,
              !.mRightControlPointHandles = <<>>,
              !.mControlPointConnectors = <<>>,
              !.handleSelected = {},
              !.mSelectedHandles = {},
              !.mClickedHandle = NoHandle,
              !.mClickedControlPointHandle = NoHandle]

(***************************************************************************)
(* The context menu and the three operations it triggers.                  *)
(***************************************************************************)
macroText(op) ==
    CASE op = "deleteNodes" -> "Delete Nodes"
      [] op = "joinNodes" -> "Join Nodes"
      [] op = "splitSegments" -> "Split Segments"

\* what the loop of an operation leaves on the tool's record: the geometry
\* set, the macro pushed when one was begun, removed objects deselected
pushCommands(s, op, r) ==
    [s EXCEPT
        !.objects = r.objects,
        !.undoStack = IF (op = "deleteNodes" \/ r.commands /= <<>>) /\ ~r.crash
                      THEN Append(@, Macro(macroText(op), r.commands))
                      ELSE @,
        !.selectedObjectItems = {item \in @ : ~r.objects[item].removed},
        !.ub = @ \/ DanglingHandle \in s.mSelectedHandles,
        !.crash = @ \/ r.crash]

\* the end of an operation: every pushed command brings about updateHandles
afterCommands(s, op, r) ==
    IF r.commands = <<>> THEN pushCommands(s, op, r)
    ELSE updateHandlesOn(pushCommands(s, op, r))

\* deleteNodes, joinNodes or splitSegments on the tool's record
triggered(s, op) ==
    LET n == Cardinality(s.mSelectedHandles)
        p == groupIndexesByObject(s.mSelectedHandles \ {DanglingHandle})
    IN  IF (op = "deleteNodes" /\ n = 0) \/ (op /= "deleteNodes" /\ n < 2)
        THEN s
        ELSE afterCommands(s, op,
                           forEachObject(op, s.objects, <<>>, DOMAIN p, p))

\* showHandleContextMenu: a clicked handle outside the selection becomes
\* the selection, the menu opens, the user picks an entry or none
showHandleContextMenu(s, clickedHandle, choice) ==
    LET s1 == IF clickedHandle /= NoHandle
                 /\ clickedHandle \notin s.mSelectedHandles
              THEN setSelectedHandle(s, clickedHandle)
              ELSE s
        s2 == [s1 EXCEPT !.menu = "handles"]
        n == Cardinality(s2.mSelectedHandles)
    IN  IF choice = "none" \/ (choice /= "deleteNodes" /\ n <= 1) THEN s2
        ELSE triggered(s2, choice)

(***************************************************************************)
(* Moving point handles and a control point handle.                        *)
(***************************************************************************)
\* the order a QSet of handles is gone through, here ascending
RECURSIVE handleOrder(_)
handleOrder(handles) ==
    IF handles = {} THEN <<>>
    ELSE LET handle == CHOOSE h \in handles :
                           \A g \in handles :
                               \/ h[1] < g[1]
                               \/ h[1] = g[1] /\ h[2] <= g[2]
         IN  <<handle>> \o handleOrder(handles \ {handle})

\* handle->pos(): updateHandles and updateMovingItems keep a handle on the
\* polygon point of its index
handlePos(s, handle) ==
    IF handle /= DanglingHandle
       /\ handle[2] < Len(s.objects[handle[1]].polygon)
    THEN at(s.objects[handle[1]].polygon, handle[2])
    ELSE QPointF(0, 0)

startSelecting(s) == [s EXCEPT !.mMode = "Selecting"]

\* the objects a read through a destroyed handle can give: none, or any object
\* the document has held, removed ones included
StaleObjects(s) == {NoItem} \cup DOMAIN s.objects

startMoving(s, stale) ==
    LET s1 == IF s.mClickedHandle \notin s.mSelectedHandles
              THEN setSelectedHandle(s, s.mClickedHandle)
              ELSE s
        order == handleOrder(s1.mSelectedHandles)
        live == s1.mSelectedHandles \ {DanglingHandle}
        read == IF DanglingHandle \in s1.mSelectedHandles
                THEN {stale} \ {NoItem}
                ELSE {}
    IN  [s1 EXCEPT
            !.mMode = "Moving",
            !.mOldHandlePositions =
                [k \in 1..Len(order) |-> handlePos(s1, order[k])],
            !.mOldPolygons =
                [o \in {h[1] : h \in live} \cup read |->
                    s1.objects[o].polygon],
            !.ub = @ \/ DanglingHandle \in s1.mSelectedHandles]

startMovingControlPoint(s) ==
    LET handle == s.mClickedControlPointHandle
        s1 == [s EXCEPT !.mMode = "MovingControlPoint"]
    IN  IF handle = DanglingControlPointHandle THEN Undefined(s1)
        ELSE [s1 EXCEPT
                 !.mOldLeftControlPoints =
                     s.objects[handle[1]].leftControlPoints,
                 !.mOldRightControlPoints =
                     s.objects[handle[1]].rightControlPoints]

\* updateMovingItems, the body of its loop for the i-th selected handle:
\* PointHandle::setPointPosition, and for a bezier the two control points
\* of the same index moved along by ControlPointHandle::setPointPosition
moveHandle(s, handle, i, diff) ==
    LET object == s.objects[handle[1]]
        pointIndex == handle[2]
        newPixelPos == PointAdd(at(s.mOldHandlePositions, i), diff)
        delta == PointSub(newPixelPos, at(object.polygon, pointIndex))
        moved == setPolygon(object,
                            replace(object.polygon, pointIndex, newPixelPos))
    IN  IF handle = DanglingHandle \/ i >= Len(s.mOldHandlePositions)
        THEN Undefined(s)
        ELSE IF pointIndex >= Len(object.polygon) THEN Undefined(s)
        ELSE IF ~isBezier(object.shape)
        THEN [s EXCEPT !.objects[handle[1]] = moved]
        ELSE IF \/ pointIndex >= Len(object.leftControlPoints)
                \/ pointIndex >= Len(object.rightControlPoints)
        THEN Undefined([s EXCEPT !.objects[handle[1]] = moved])
        ELSE [s EXCEPT !.objects[handle[1]] =
                 setBezier(moved, moved.polygon,
                           replace(object.leftControlPoints, pointIndex,
                                   PointAdd(at(object.leftControlPoints,
                                               pointIndex), delta)),
                           replace(object.rightControlPoints, pointIndex,
                                   PointAdd(at(object.rightControlPoints,
                                               pointIndex), delta)))]

RECURSIVE moveHandles(_, _, _, _)
moveHandles(s, order, i, diff) ==
    IF i >= Len(order) THEN s
    ELSE moveHandles(moveHandle(s, at(order, i), i, diff), order, i + 1, diff)

updateMovingItems(s, pos) ==
    moveHandles(s, handleOrder(s.mSelectedHandles), 0,
                QPointF(pos - s.mStart, 0))

\* updateMovingControlPoint: the clicked control point handle is put where
\* the mouse is
updateMovingControlPoint(s, pos) ==
    LET handle == s.mClickedControlPointHandle
        object == s.objects[handle[1]]
        pointIndex == handle[2]
        changedControlPoints == IF handle[3] THEN object.rightControlPoints
                                ELSE object.leftControlPoints
        changed == replace(changedControlPoints, pointIndex, QPointF(pos, 0))
    IN  IF handle = NoHandle THEN Died(s)
        ELSE IF handle = DanglingControlPointHandle THEN Undefined(s)
        ELSE IF pointIndex >= Len(changedControlPoints) THEN Undefined(s)
        ELSE [s EXCEPT !.objects[handle[1]] =
                 IF handle[3]
                 THEN setBezier(object, object.polygon,
                                object.leftControlPoints, changed)
                 ELSE setBezier(object, object.polygon, changed,
                                object.rightControlPoints)]

\* the ChangePolygon commands of finishMoving, by ascending object
RECURSIVE changePolygons(_, _)
changePolygons(oldPolygons, keys) ==
    IF keys = {} THEN <<>>
    ELSE LET o == CHOOSE k \in keys : \A j \in keys : k <= j
         IN  <<ChangePolygon(o, oldPolygons[o])>>
             \o changePolygons(oldPolygons, keys \ {o})

\* finishMoving: a macro of one ChangePolygon per object of mOldPolygons,
\* each pushed command followed by updateHandles
finishMoving(s, pos) ==
    LET s1 == [s EXCEPT !.mMode = "NoMode"]
    IN  IF s.mStart = pos \/ DOMAIN s.mOldPolygons = {} THEN s1
        ELSE updateHandlesOn(
                 [s1 EXCEPT
                     !.undoStack =
                         Append(@, Macro("Move Point(s)",
                                         changePolygons(s.mOldPolygons,
                                                        DOMAIN s.mOldPolygons))),
                     !.mOldHandlePositions = <<>>,
                     !.mOldPolygons = <<>>])

\* finishMovingControlPoint: a macro of one ChangeBezier for the object of
\* the clicked control point handle
finishMovingControlPoint(s, pos) ==
    LET s1 == [s EXCEPT !.mMode = "NoMode"]
        handle == s.mClickedControlPointHandle
        done == [s1 EXCEPT !.mOldLeftControlPoints = <<>>,
                           !.mOldRightControlPoints = <<>>,
                           !.mClickedControlPointHandle = NoHandle]
    IN  IF s.mStart = pos THEN s1
        ELSE IF handle = NoHandle THEN Died(s1)
        ELSE IF handle = DanglingControlPointHandle THEN Undefined(done)
        ELSE updateHandlesOn(
                 [done EXCEPT
                     !.undoStack =
                         Append(@, Macro("Move Control Point",
                                    <<ChangeBezier(handle[1],
                                          s.objects[handle[1]].polygon,
                                          s.mOldLeftControlPoints,
                                          s.mOldRightControlPoints)>>))])

(***************************************************************************)
(* The three mouse handlers.                                               *)
(***************************************************************************)
\* faulty variant: a press is taken whatever the mode
mousePressedOnAnyMode(s, button, pos, clickedObjectItem, clickedHandle, clickedControlPointHandle, choice) ==
    CASE button = "LeftButton" ->
             [s EXCEPT !.mMousePressed = TRUE,
                       !.mStart = pos,
                       !.mClickedObjectItem = clickedObjectItem,
                       !.mClickedHandle = clickedHandle,
                       !.mClickedControlPointHandle = clickedControlPointHandle]
      [] button = "RightButton" ->
             IF clickedHandle /= NoHandle \/ s.mSelectedHandles /= {}
             THEN showHandleContextMenu(s, clickedHandle, choice)
             ELSE [s EXCEPT !.menu = "base"]
      [] OTHER -> [s EXCEPT !.menu = "base"]

\* mousePressed at pos, over the given item and handles of the scene; a
\* press the tool does not take goes to AbstractObjectTool::mousePressed
mousePressedOn(s, button, pos, clickedObjectItem, clickedHandle, clickedControlPointHandle, choice) ==
    IF s.mMode /= "NoMode" THEN s
    ELSE CASE button = "LeftButton" ->
                  [s EXCEPT !.mMousePressed = TRUE,
                            !.mStart = pos,
                            !.mClickedObjectItem = clickedObjectItem,
                            !.mClickedHandle = clickedHandle,
                            !.mClickedControlPointHandle =
                                clickedControlPointHandle]
           [] button = "RightButton" ->
                  IF clickedHandle /= NoHandle \/ s.mSelectedHandles /= {}
                  THEN showHandleContextMenu(s, clickedHandle, choice)
                  ELSE [s EXCEPT !.menu = "base"]
           [] OTHER -> [s EXCEPT !.menu = "base"]

\* faulty variant: a clicked point handle comes before a control point handle
startDraggingPointHandleFirst(s, stale) ==
    IF s.mClickedHandle /= NoHandle THEN startMoving(s, stale)
    ELSE IF s.mClickedControlPointHandle /= NoHandle
    THEN startMovingControlPoint(s)
    ELSE startSelecting(s)

\* what mouseMoved starts once the mouse has been dragged far enough
startDragging(s, stale) ==
    IF s.mClickedControlPointHandle /= NoHandle THEN startMovingControlPoint(s)
    ELSE IF s.mClickedHandle /= NoHandle THEN startMoving(s, stale)
    ELSE startSelecting(s)

mouseMovedOn(s, pos, stale) ==
    LET dragDistance == Abs(s.mStart - pos)
        s1 == IF /\ s.mMode = "NoMode"
                 /\ s.mMousePressed
                 /\ dragDistance >= startDragDistance
              THEN startDragging(s, stale)
              ELSE s
    IN  CASE s1.mMode = "Moving" -> updateMovingItems(s1, pos)
          [] s1.mMode = "MovingControlPoint" -> updateMovingControlPoint(s1, pos)
          [] OTHER -> s1

\* a selection with the clicked element toggled or alone
clickSelection(selection, clicked, modifiers) ==
    IF modifiers
    THEN IF clicked \in selection THEN selection \ {clicked}
         ELSE selection \cup {clicked}
    ELSE {clicked}

\* mouseReleased in NoMode: a click
click(s, modifiers) ==
    IF s.mClickedHandle /= NoHandle
    THEN setSelectedHandlesOn(s, clickSelection(s.mSelectedHandles,
                                                s.mClickedHandle, modifiers))
    ELSE IF s.mClickedObjectItem /= NoItem
    THEN IF s.objects[s.mClickedObjectItem].removed THEN Undefined(s)
         ELSE updateHandlesOn(
                  [s EXCEPT !.selectedObjectItems =
                       clickSelection(@, s.mClickedObjectItem, modifiers)])
    ELSE IF s.mSelectedHandles /= {} THEN setSelectedHandlesOn(s, {})
    ELSE updateHandlesOn([s EXCEPT !.selectedObjectItems = {}])

\* updateSelection with the items and the handles the rectangle holds
updateSelection(s, modifiers, itemsInRect, handlesInRect) ==
    IF s.selectedObjectItems = {}
    THEN updateHandlesOn([s EXCEPT !.selectedObjectItems = itemsInRect])
    ELSE setSelectedHandlesOn(s, IF modifiers
                                 THEN s.mSelectedHandles \cup handlesInRect
                                 ELSE handlesInRect)

mouseReleasedOn(s, button, modifiers, pos, itemsInRect, handlesInRect) ==
    IF button /= "LeftButton" THEN s
    ELSE LET s1 == CASE s.mMode = "NoMode" -> click(s, modifiers)
                     [] s.mMode = "Selecting" ->
                            [updateSelection(s, modifiers, itemsInRect,
                                             handlesInRect)
                                EXCEPT !.mMode = "NoMode"]
                     [] s.mMode = "Moving" -> finishMoving(s, pos)
                     [] s.mMode = "MovingControlPoint" ->
                            finishMovingControlPoint(s, pos)
         IN  [s1 EXCEPT !.mMousePressed = FALSE, !.mClickedHandle = NoHandle]

(***************************************************************************)
(* The specification: the tool is activated and deactivated, the scene's   *)
(* selection changes under it, the mouse is pressed, moved and released.   *)
(***************************************************************************)
Store(s) ==
    /\ objects' = s.objects
    /\ undoStack' = s.undoStack
    /\ selectedObjectItems' = s.selectedObjectItems
    /\ mHandles' = s.mHandles
    /\ mLeftControlPointHandles' = s.mLeftControlPointHandles
    /\ mRightControlPointHandles' = s.mRightControlPointHandles
    /\ mControlPointConnectors' = s.mControlPointConnectors
    /\ handleSelected' = s.handleSelected
    /\ mSelectedHandles' = s.mSelectedHandles
    /\ mMode' = s.mMode
    /\ mMousePressed' = s.mMousePressed
    /\ mStart' = s.mStart
    /\ mClickedHandle' = s.mClickedHandle
    /\ mClickedControlPointHandle' = s.mClickedControlPointHandle
    /\ mClickedObjectItem' = s.mClickedObjectItem
    /\ mOldHandlePositions' = s.mOldHandlePositions
    /\ mOldPolygons' = s.mOldPolygons
    /\ mOldLeftControlPoints' = s.mOldLeftControlPoints
    /\ mOldRightControlPoints' = s.mOldRightControlPoints

\* the end of a handler that leaves the tool as s: its writes are in
\* place, unless the process died on the way, which it may when something
\* undefined was done
Deliver(s, nowActive, pos, presses) ==
    /\ Len(s.undoStack) <= MaxOps
    /\ \A o \in DOMAIN s.objects : Len(s.objects[o].polygon) <= MaxPoints
    /\ \/ /\ ~s.crash
          /\ Store(s)
          /\ crashed' = FALSE
          /\ active' = nowActive
          /\ cursor' = pos
          /\ clicks' = presses
       \/ /\ s.crash \/ s.ub
          /\ crashed' = TRUE
          /\ UNCHANGED <<objects, mSelectedHandles, undoStack, active, cursor,
                         clicks, selectedObjectItems, handleSelected,
                         handleVars, mMode, mMousePressed, mStart, clickVars,
                         moveVars>>
    /\ UNCHANGED <<algoVars, groupVars>>

Items(objs) == {o \in DOMAIN objs : ~objs[o].removed}

Choices == {"none", "deleteNodes", "joinNodes", "splitSegments"}

InitMouse ==
    /\ \E shape \in [MouseObjects -> Shapes], cell \in [MouseObjects -> BOOLEAN] :
          objects = [o \in MouseObjects |-> MouseObject(shape[o], 2, cell[o])]
    /\ mSelectedHandles = {}
    /\ undoStack = <<>>
    /\ crashed = FALSE
    /\ AlgoIdle
    /\ GroupIdle
    /\ MouseIdle

activate ==
    /\ ~active /\ ~crashed
    /\ \E s \in {activateOn(Tool)} : Deliver(s, TRUE, cursor, clicks)

deactivate ==
    /\ active /\ ~crashed
    /\ \E s \in {deactivateOn(Tool)} : Deliver(s, FALSE, cursor, clicks)

\* the scene's selection is changed from elsewhere; the signal reaches
\* updateHandles while the tool is active
selectedObjectItemsChanged ==
    /\ ~crashed
    /\ \E selection \in (SUBSET Items(objects)) \ {selectedObjectItems} :
          \E s \in {IF active
                    THEN updateHandlesOn([Tool EXCEPT
                             !.selectedObjectItems = selection])
                    ELSE [Tool EXCEPT !.selectedObjectItems = selection]} :
              Deliver(s, active, cursor, clicks)

PointHandlesInScene == handlesOf(mHandles)
ControlPointHandlesInScene ==
    handlesOf(mLeftControlPointHandles) \cup handlesOf(mRightControlPointHandles)

\* a left press: over an item, a point handle, a control point handle, or
\* over none of them
mousePressedLeft ==
    /\ active /\ ~crashed
    /\ mMode = "NoMode" => clicks < MaxClicks
    /\ \E clickedObjectItem \in {NoItem} \cup Items(objects),
          clickedHandle \in {NoHandle} \cup PointHandlesInScene,
          clickedControlPointHandle \in
              {NoHandle} \cup ControlPointHandlesInScene :
          \E s \in {mousePressedOn(Tool, "LeftButton", cursor,
                                    clickedObjectItem, clickedHandle,
                                    clickedControlPointHandle, "none")} :
              Deliver(s, active, cursor,
                      IF mMode = "NoMode" THEN clicks + 1 ELSE clicks)

\* a press of another button; the right one may open the context menu, of
\* which the user triggers an entry or none
mousePressedOther ==
    /\ active /\ ~crashed
    /\ \E button \in Buttons \ {"LeftButton"},
          clickedHandle \in {NoHandle} \cup PointHandlesInScene,
          choice \in Choices :
          \E s \in {mousePressedOn(Tool, button, cursor, NoItem,
                                    clickedHandle, NoHandle, choice)} :
              Deliver(s, active, cursor, clicks)

mouseMoved ==
    /\ active /\ ~crashed
    /\ \E pos \in Positions :
          \E stale \in IF \/ mClickedHandle = DanglingHandle
                          \/ DanglingHandle \in mSelectedHandles
                       THEN StaleObjects(Tool)
                       ELSE {NoItem} :
              \E s \in {mouseMovedOn(Tool, pos, stale)} :
                  Deliver(s, active, pos, clicks)

\* the slot objectsRemoved: while a move is in progress the removed objects
\* leave mOldPolygons
objectsRemovedOn(s, removedObjects) ==
    IF s.mMode = "Moving"
    THEN [s EXCEPT !.mOldPolygons =
                       [o \in (DOMAIN @) \ removedObjects |-> @[o]]]
    ELSE s

\* the document as it removes objects from the map: their items leave the
\* scene and its selection
removeObjects(s, removedObjects) ==
    [s EXCEPT
        !.objects = [o \in DOMAIN @ |->
                        IF o \in removedObjects
                        THEN [@[o] EXCEPT !.removed = TRUE]
                        ELSE @[o]],
        !.selectedObjectItems = @ \ removedObjects]

\* objects are removed from the map by something other than this tool.  The
\* slot is connected by activate and stays connected after deactivate; the
\* change of the selection reaches updateHandles while the tool is active.
objectsRemoved ==
    /\ ~crashed
    /\ \E removedObjects \in (SUBSET Items(objects)) \ {{}} :
          \E s \in {objectsRemovedOn(removeObjects(Tool, removedObjects),
                                     removedObjects)} :
              \E s1 \in {IF active /\ removedObjects \cap selectedObjectItems /= {}
                         THEN updateHandlesOn(s)
                         ELSE s} :
                  Deliver(s1, active, cursor, clicks)

\* a release that ends a rubber band, which holds some items and handles
mouseReleasedSelecting ==
    /\ active /\ ~crashed
    /\ mMode = "Selecting"
    /\ \E modifiers \in BOOLEAN,
          itemsInRect \in SUBSET Items(objects),
          handlesInRect \in SUBSET PointHandlesInScene :
          \E s \in {mouseReleasedOn(Tool, "LeftButton", modifiers, cursor,
                                     itemsInRect, handlesInRect)} :
              Deliver(s, active, cursor, clicks)

\* any other release
mouseReleased ==
    /\ active /\ ~crashed
    /\ \E button \in Buttons, modifiers \in BOOLEAN :
          /\ button = "LeftButton" => mMode /= "Selecting"
          /\ \E s \in {mouseReleasedOn(Tool, button, modifiers, cursor,
                                        {}, {})} :
                 Deliver(s, active, cursor, clicks)

NextMouse ==
    \/ activate
    \/ deactivate
    \/ selectedObjectItemsChanged
    \/ mousePressedLeft
    \/ mousePressedOther
    \/ mouseMoved
    \/ mouseReleasedSelecting
    \/ mouseReleased
    \/ objectsRemoved

SpecMouse == InitMouse /\ [][NextMouse]_vars

(***************************************************************************)
(* What the claims speak of, stated over the original indexes and          *)
(* independently of the back-to-front loops above.                         *)
(***************************************************************************)
RECURSIVE SumOver(_, _)
SumOver(polygon, S) ==
    IF S = {} THEN QPointF(0, 0)
    ELSE LET i == CHOOSE j \in S : TRUE
         IN  PointAdd(at(polygon, i), SumOver(polygon, S \ {i}))

MeanOver(polygon, S) == PointDiv(SumOver(polygon, S), Cardinality(S))

RangeIndexes(r) == first(r)..last(r)

\* the range of rs that holds index i
RangeOf(rs, i) == rs[CHOOSE k \in 1..Len(rs) : i \in RangeIndexes(rs[k])]

\* the points removed beyond one per range: sum of (length - 1)
Surplus(rs) == Cardinality(Covered(rs)) - Len(rs)

\* the selection is one single range covering every index 0..n-1
WholeSelection(rs, n) == Len(rs) = 1 /\ rs[1] = <<0, n - 1>>

\* joinPolygonNodes returns its input as it is
JoinUnchangedCase(polygon, rs) ==
    \/ rs = <<>>
    \/ Len(polygon) < 3
    \/ WholeSelection(rs, Len(polygon))

\* two distinct ranges touch the two ends of the sequence
EndsSelected(rs, n) ==
    /\ Len(rs) >= 2
    /\ first(rs[1]) = 0
    /\ last(rs[Len(rs)]) = n - 1

WrapMerge(polygon, rs, closed) ==
    /\ closed
    /\ ~JoinUnchangedCase(polygon, rs)
    /\ EndsSelected(rs, Len(polygon))

\* the points standing for original index i in a joined sequence
JoinedAt(polygon, rs, closed, i) ==
    IF i \notin Covered(rs) THEN <<at(polygon, i)>>
    ELSE LET r == RangeOf(rs, i)
         IN  IF i /= first(r) THEN <<>>
             ELSE IF WrapMerge(polygon, rs, closed) /\ r = rs[1]
             THEN <<MeanOver(polygon, RangeIndexes(rs[1])
                                      \cup RangeIndexes(rs[Len(rs)]))>>
             ELSE IF WrapMerge(polygon, rs, closed) /\ r = rs[Len(rs)]
             THEN <<>>
             ELSE <<MeanOver(polygon, RangeIndexes(r))>>

RECURSIVE ExpectedJoinFrom(_, _, _, _)
ExpectedJoinFrom(polygon, rs, closed, i) ==
    IF i >= Len(polygon) THEN <<>>
    ELSE JoinedAt(polygon, rs, closed, i)
         \o ExpectedJoinFrom(polygon, rs, closed, i + 1)

ExpectedJoin(polygon, rs, closed) == ExpectedJoinFrom(polygon, rs, closed, 0)

\* the points at the non-selected indexes, in their original order
RECURSIVE UnselectedFrom(_, _, _)
UnselectedFrom(polygon, rs, i) ==
    IF i >= Len(polygon) THEN <<>>
    ELSE (IF i \in Covered(rs) THEN <<>> ELSE <<at(polygon, i)>>)
         \o UnselectedFrom(polygon, rs, i + 1)

\* the original points with a midpoint between i-1 and i whenever both are
\* in the same range
SameRange(rs, i, j) ==
    \E k \in 1..Len(rs) : i \in RangeIndexes(rs[k]) /\ j \in RangeIndexes(rs[k])

RECURSIVE ExpectedSplitFrom(_, _, _)
ExpectedSplitFrom(polygon, rs, i) ==
    IF i >= Len(polygon) THEN <<>>
    ELSE (IF i > 0 /\ SameRange(rs, i - 1, i)
          THEN <<PointDiv(PointAdd(at(polygon, i - 1), at(polygon, i)), 2),
                 at(polygon, i)>>
          ELSE <<at(polygon, i)>>)
         \o ExpectedSplitFrom(polygon, rs, i + 1)

ExpectedSplit(polygon, rs) == ExpectedSplitFrom(polygon, rs, 0)

Joined == algo = "join"
Split == algo = "split"
Deleted == algo = "delete"
n0 == Len(inPolygon)

\* C1: joinPolygonNodes, outside its unchanged-return cases, replaces every
\* selected contiguous range by exactly one point, the arithmetic mean of the
\* original points at the range's indexes (the first and last range of a
\* closed wrap-around counting as the one range they form around the seam),
\* interior ranges processed after a wrap-around merge included.
C1_JoinReplacesEachRangeByItsMean ==
    (Joined /\ ~JoinUnchangedCase(inPolygon, inRanges))
        => outPolygon = ExpectedJoin(inPolygon, inRanges, inClosed)

\* C3: the deletion loop leaves exactly the points at the non-selected
\* original indexes, in their original relative order.
C3_DeleteKeepsUnselectedInOrder ==
    Deleted => outPolygon = UnselectedFrom(inPolygon, inRanges, 0)

C3_Witness ==
    /\ Deleted
    /\ Len(inRanges) >= 2
    /\ Len(outPolygon) >= 2
    /\ outPolygon[1] /= outPolygon[2]

\* C5: closed, first range starting at 0, last range ending at n-1, two
\* distinct ranges: index 0 of the result is the mean of all points of both
\* ranges, the slot after it is the point that followed the first range and
\* the last slot is the point that preceded the last range, so no other
\* point of either range is left.
C5_ClosedWrapAroundMerges ==
    (Joined /\ WrapMerge(inPolygon, inRanges, inClosed))
        => LET f == inRanges[1]
               l == inRanges[Len(inRanges)]
           IN  /\ Len(outPolygon) >= 2
               /\ outPolygon[1] = MeanOver(inPolygon, RangeIndexes(f)
                                                      \cup RangeIndexes(l))
               /\ outPolygon[2] = at(inPolygon, last(f) + 1)
               /\ outPolygon[Len(outPolygon)] = at(inPolygon, first(l) - 1)
               /\ Len(outPolygon) = n0 - Surplus(inRanges) - 1

C5_Witness ==
    /\ Joined
    /\ WrapMerge(inPolygon, inRanges, inClosed)
    /\ length(inRanges[1]) >= 2
    /\ length(inRanges[Len(inRanges)]) >= 2
    /\ outPolygon[1] \notin PointSet

\* C6: open, first range starting at 0 and last range ending at n-1: the two
\* ranges are not merged; each range is replaced by the mean of its own
\* points and the result has one point per selected range.
C6_OpenNeverMergesEnds ==
    (Joined /\ ~inClosed /\ n0 >= 3 /\ EndsSelected(inRanges, n0))
        => /\ outPolygon[1] = MeanOver(inPolygon, RangeIndexes(inRanges[1]))
           /\ outPolygon[Len(outPolygon)] =
                 MeanOver(inPolygon, RangeIndexes(inRanges[Len(inRanges)]))
           /\ outPolygon = ExpectedJoin(inPolygon, inRanges, FALSE)
           /\ Len(outPolygon) = n0 - Surplus(inRanges)

C6_Witness ==
    /\ Joined /\ ~inClosed /\ n0 >= 3 /\ EndsSelected(inRanges, n0)
    /\ length(inRanges[1]) >= 2
    /\ outPolygon[1] /= outPolygon[Len(outPolygon)]
    /\ outPolygon[1] \notin PointSet

\* C7: joinPolygonNodes returns its input unchanged when the Range-Set is
\* empty or the sequence has fewer than 3 points, closed or open.
C7_JoinUnchangedOnEmptyOrShort ==
    (Joined /\ (inRanges = <<>> \/ n0 < 3)) => outPolygon = inPolygon

C7_Witness ==
    /\ Joined
    /\ n0 = 2
    /\ inRanges = <<<<0, 1>>>>
    /\ inPolygon[1] /= inPolygon[2]
    /\ outPolygon = inPolygon

\* C8: joinPolygonNodes returns its input unchanged when the selection is one
\* single range covering every index 0..n-1, closed or open.
C8_JoinUnchangedOnWholeSelection ==
    (Joined /\ WholeSelection(inRanges, n0)) => outPolygon = inPolygon

C8_Witness ==
    /\ Joined
    /\ ~inClosed
    /\ n0 >= 3
    /\ WholeSelection(inRanges, n0)
    /\ inPolygon[1] /= inPolygon[2]
    /\ outPolygon = inPolygon

\* C9 as stated: the result length is n minus the sum of (range length - 1),
\* minus 1 more exactly when a closed wrap-around merge took place.
C9_JoinLengthFormulaAlways ==
    Joined => Len(outPolygon) =
                n0 - Surplus(inRanges)
                   - (IF inClosed /\ EndsSelected(inRanges, n0) THEN 1 ELSE 0)

\* C9 amended: the result is never longer than the input; it has the input's
\* length in the unchanged-return cases (empty Range-Set, fewer than 3 points,
\* one range covering every index) and otherwise n minus the sum of (range
\* length - 1), minus 1 more exactly when a closed wrap-around merge took
\* place.
C9_JoinLength ==
    Joined =>
        /\ Len(outPolygon) <= n0
        /\ Len(outPolygon) =
              IF JoinUnchangedCase(inPolygon, inRanges) THEN n0
              ELSE n0 - Surplus(inRanges)
                      - (IF WrapMerge(inPolygon, inRanges, inClosed)
                         THEN 1 ELSE 0)

C9_Witness ==
    /\ Joined
    /\ WrapMerge(inPolygon, inRanges, inClosed)
    /\ Len(inRanges) >= 3
    /\ Surplus(inRanges) >= 1
    /\ Len(outPolygon) = n0 - Surplus(inRanges) - 1

\* C10: for every range and every i with first < i <= last the result holds,
\* directly between original points i-1 and i, their midpoint; the original
\* points keep their order and nothing stands between two consecutive points
\* that are not in the same range (what follows the original last point is
\* at most the seam point).
C10_SplitInsertsMidpoints ==
    Split =>
        LET e == ExpectedSplit(inPolygon, inRanges)
        IN  /\ Len(outPolygon) >= Len(e)
            /\ Len(outPolygon) <= Len(e) + 1
            /\ SubSeq(outPolygon, 1, Len(e)) = e
            /\ Len(e) = n0 + Surplus(inRanges)

C10_Witness ==
    /\ Split
    /\ Len(inRanges) >= 2
    /\ \E k \in 1..Len(inRanges) : length(inRanges[k]) >= 3
    /\ \E k \in 1..Len(outPolygon) : outPolygon[k] \notin PointSet
    /\ Len(outPolygon) = n0 + Surplus(inRanges)

\* C2: for every curve-typed shape, open or closed, the polygon and the left
\* and right control point sequences have the same length after every
\* sequence of deleteNodes, joinNodes and splitSegments.
C2_ControlPointsKeepPolygonLength ==
    \A o \in DOMAIN objects :
        isBezier(objects[o].shape) =>
            /\ Len(objects[o].leftControlPoints) = Len(objects[o].polygon)
            /\ Len(objects[o].rightControlPoints) = Len(objects[o].polygon)

\* C4: deleteNodes, for every shape with a selected handle: when fewer than 2
\* points are left the shape is removed (a RemoveMapObject is pushed) and its
\* geometry is not changed; when 2 or more are left the shape is not removed
\* and the shortened geometry is committed.
C4_DeleteRemovesOrCommits ==
    [][(deleteNodes /\ mSelectedHandles /= {}) =>
        \A o \in {h[1] : h \in mSelectedHandles} :
            LET left == UnselectedFrom(objects[o].polygon,
                                       groupIndexesByObject(mSelectedHandles)[o],
                                       0)
            IN  IF Len(left) < 2
                THEN /\ objects'[o].removed
                     /\ objects'[o].polygon = objects[o].polygon
                     /\ Len(undoStack') = Len(undoStack) + 1
                     /\ \E k \in 1..Len(undoStack'[Len(undoStack')].commands) :
                           undoStack'[Len(undoStack')].commands[k]
                               = RemoveMapObject(o)
                ELSE /\ ~objects'[o].removed
                     /\ objects'[o].polygon = left
                     /\ Len(objects'[o].polygon) >= 2
      ]_vars

\* the closed shape's first and last index are both selected
SeamCase(rs, n, closed) == closed /\ 0 \in Covered(rs) /\ (n - 1) \in Covered(rs)

\* what stands in the result after the original last point
AfterLastPoint ==
    SubSeq(outPolygon, Len(ExpectedSplit(inPolygon, inRanges)) + 1,
           Len(outPolygon))

\* C11: splitPolygonSegments puts exactly one seam point, the midpoint of the
\* original first and original last point, as final element after the
\* original last point exactly when the shape is closed, the first range
\* starts at 0 and the last range ends at n-1; on open shapes, or when one of
\* the two end indexes is unselected, nothing follows the original last point.
C11_SplitSeamPoint ==
    Split =>
        IF SeamCase(inRanges, n0, inClosed)
        THEN AfterLastPoint
                 = <<PointDiv(PointAdd(inPolygon[1], inPolygon[n0]), 2)>>
        ELSE AfterLastPoint = <<>>

C11_Witness ==
    /\ Split
    /\ SeamCase(inRanges, n0, inClosed)
    /\ Len(inRanges) >= 2
    /\ inPolygon[1] /= inPolygon[n0]
    /\ outPolygon[Len(outPolygon)]
           = PointDiv(PointAdd(inPolygon[1], inPolygon[n0]), 2)
    /\ outPolygon[Len(outPolygon) - 1] = inPolygon[n0]

\* C12: splitPolygonSegments returns its input unchanged whenever the
\* Range-Set is empty, on closed and on open shapes.
C12_SplitUnchangedOnEmptyRangeSet ==
    (Split /\ inRanges = <<>>) => outPolygon = inPolygon

C12_Witness ==
    /\ Split
    /\ inRanges = <<>>
    /\ inClosed
    /\ n0 >= 3
    /\ inPolygon[1] /= inPolygon[n0]
    /\ outPolygon = inPolygon

\* the sum over all ranges of (range length - 1)
RECURSIVE SumLengthMinusOne(_, _)
SumLengthMinusOne(rs, k) ==
    IF k > Len(rs) THEN 0
    ELSE (last(rs[k]) - first(rs[k]) + 1 - 1) + SumLengthMinusOne(rs, k + 1)

\* C13: the result of splitPolygonSegments is never shorter than its input:
\* its length is n plus the sum over all ranges of (range length - 1), plus 1
\* exactly when the closed shape's seam point is added.
C13_SplitLength ==
    Split =>
        /\ Len(outPolygon) >= n0
        /\ Len(outPolygon) = n0 + SumLengthMinusOne(inRanges, 1)
                                + (IF SeamCase(inRanges, n0, inClosed)
                                   THEN 1 ELSE 0)

C13_Witness ==
    /\ Split
    /\ Len(inRanges) >= 2
    /\ SumLengthMinusOne(inRanges, 1) >= 2
    /\ SeamCase(inRanges, n0, inClosed)
    /\ Len(outPolygon) = n0 + SumLengthMinusOne(inRanges, 1) + 1

\* the algorithm of the state applied to another sequence
ApplyTo(polygon) ==
    CASE Deleted -> removeRanges(polygon, inRanges, Len(inRanges) + 1, 1)
      [] Joined -> joinPolygonNodes(polygon, inRanges, inClosed)
      [] Split -> splitPolygonSegments(polygon, inRanges, inClosed)

\* sequences of a given length to compare with: all points distinct, all
\* points distinct at other coordinates, all points at the same place
ReferenceSequences(n) ==
    {InitPolygon(n), InitLeftControlPoints(n), [i \in 1..n |-> QPointF(0, 0)]}

\* C14: slice deletion, joinPolygonNodes and splitPolygonSegments give
\* results of equal length on sequences of equal length with the same
\* Range-Set and the same closed flag, whatever the coordinates.  Every input
\* sequence gets a result as long as the result of each reference sequence
\* of its length, so any three sequences of equal length get three results
\* of equal length.
C14_ResultLengthIgnoresCoordinates ==
    algo /= "none" =>
        \A q \in ReferenceSequences(n0) : Len(ApplyTo(q)) = Len(outPolygon)

C14_Witness ==
    /\ algo /= "none"
    /\ Len(outPolygon) /= n0
    /\ Len(inRanges) >= 2
    /\ inPolygon[1] /= inPolygon[n0]
    /\ \E q, r \in ReferenceSequences(n0) :
          /\ Cardinality({inPolygon, q, r}) = 3
          /\ ApplyTo(q) /= outPolygon
          /\ ApplyTo(r) /= ApplyTo(q)
          /\ Len(ApplyTo(q)) = Len(outPolygon)
          /\ Len(ApplyTo(r)) = Len(outPolygon)

\* C15: deleteNodes on a curve-typed shape that keeps 2 or more points removes
\* the selected slices from the left and right control point sequences as
\* from the polygon: the three sequences keep exactly their points at the
\* unselected indexes, so node i keeps its control points.
C15_DeleteKeepsControlPointsPaired ==
    [][(deleteNodes /\ mSelectedHandles /= {}) =>
        \A o \in {h[1] : h \in mSelectedHandles} :
            LET rs == groupIndexesByObject(mSelectedHandles)[o]
                object == objects[o]
            IN  (/\ isBezier(object.shape)
                 /\ Len(UnselectedFrom(object.polygon, rs, 0)) >= 2)
                => /\ objects'[o].polygon
                          = UnselectedFrom(object.polygon, rs, 0)
                   /\ objects'[o].leftControlPoints
                          = UnselectedFrom(object.leftControlPoints, rs, 0)
                   /\ objects'[o].rightControlPoints
                          = UnselectedFrom(object.rightControlPoints, rs, 0)
      ]_vars

\* C16: deleteNodes with no selected handle, and joinNodes or splitSegments
\* with fewer than 2 selected handles, change no shape geometry, push no undo
\* command and open no undo macro.
C16_NoOpOnInsufficientSelection ==
    [][(\/ deleteNodes /\ mSelectedHandles = {}
        \/ joinNodes /\ Cardinality(mSelectedHandles) < 2
        \/ splitSegments /\ Cardinality(mSelectedHandles) < 2)
       => /\ objects' = objects
          /\ undoStack' = undoStack
      ]_vars

\* after an earlier commit a single handle is selected and the tool runs:
\* joinNodes and splitSegments act here and leave this very state
C16_Witness ==
    /\ Running
    /\ Cardinality(mSelectedHandles) = 1
    /\ undoStack /= <<>>
    /\ ENABLED (joinNodes /\ UNCHANGED vars)
    /\ ENABLED (splitSegments /\ UNCHANGED vars)

\* the undo commands a step pushes
NewCommands ==
    IF Len(undoStack') > Len(undoStack)
    THEN undoStack'[Len(undoStack')].commands
    ELSE <<>>

\* a step commits shape o: its geometry is set or a command is pushed for it
Commits(o) ==
    \/ objects'[o] /= objects[o]
    \/ \E k \in 1..Len(NewCommands) : NewCommands[k].object = o

joinResult(o) ==
    joinPolygonNodes(objects[o].polygon,
                     groupIndexesByObject(mSelectedHandles)[o],
                     isClosed(objects[o].shape))

splitResult(o) ==
    splitPolygonSegments(objects[o].polygon,
                         groupIndexesByObject(mSelectedHandles)[o],
                         isClosed(objects[o].shape))

SelectedObjects == {h[1] : h \in mSelectedHandles}

\* C17: joinNodes and splitSegments commit a shape only if the algorithm's
\* result for it differs from its current polygon; when the result is
\* unchanged for every shape with a selected handle, no geometry is set, no
\* command is pushed and no undo macro is begun.
C17_CommitOnlyWhenChanged ==
    [][/\ (joinNodes /\ Cardinality(mSelectedHandles) >= 2) =>
            /\ \A o \in DOMAIN objects :
                   Commits(o) => /\ o \in SelectedObjects
                                 /\ joinResult(o) /= objects[o].polygon
            /\ (\A o \in SelectedObjects :
                    joinResult(o) = objects[o].polygon)
               => objects' = objects /\ undoStack' = undoStack
       /\ (splitSegments /\ Cardinality(mSelectedHandles) >= 2) =>
            /\ \A o \in DOMAIN objects :
                   Commits(o) => /\ o \in SelectedObjects
                                 /\ splitResult(o) /= objects[o].polygon
            /\ (\A o \in SelectedObjects :
                    splitResult(o) = objects[o].polygon)
               => objects' = objects /\ undoStack' = undoStack
      ]_vars

\* a join was committed on a polygon that differed from its result, and the
\* handles still selected give a result equal to the polygon: joinNodes acts
\* here without a commit
C17_Witness ==
    /\ Running
    /\ Cardinality(mSelectedHandles) >= 2
    /\ \E k \in 1..Len(undoStack) :
          /\ undoStack[k].text = "Join Nodes"
          /\ \E c \in 1..Len(undoStack[k].commands) :
                Len(undoStack[k].commands[c].oldPolygon)
                    > Len(objects[undoStack[k].commands[c].object].polygon)
    /\ \A o \in SelectedObjects : joinResult(o) = objects[o].polygon
    /\ ENABLED (joinNodes /\ UNCHANGED vars)

\* the undo records a step pushes for shape o
RecordsOf(o) == {k \in 1..Len(NewCommands) : NewCommands[k].object = o}

\* a step sets a sequence of shape o
GeometryCommitted(o) ==
    \/ objects'[o].polygon /= objects[o].polygon
    \/ objects'[o].leftControlPoints /= objects[o].leftControlPoints
    \/ objects'[o].rightControlPoints /= objects[o].rightControlPoints

\* C18: every geometry commit of deleteNodes, joinNodes and splitSegments
\* comes with exactly one undo record for the shape, and the record holds the
\* value before the operation of every sequence the operation changed: the
\* prior polygon, and the prior left and right control point sequences where
\* these were changed.
C18_CommitPairedWithUndoRecord ==
    [][(\/ deleteNodes /\ mSelectedHandles /= {}
        \/ joinNodes /\ Cardinality(mSelectedHandles) >= 2
        \/ splitSegments /\ Cardinality(mSelectedHandles) >= 2)
       => \A o \in DOMAIN objects :
              GeometryCommitted(o) =>
                  /\ Cardinality(RecordsOf(o)) = 1
                  /\ \A k \in RecordsOf(o) :
                        LET record == NewCommands[k]
                        IN  /\ record.type \in {"ChangePolygon", "ChangeBezier"}
                            /\ record.oldPolygon = objects[o].polygon
                            /\ (objects'[o].leftControlPoints
                                    /= objects[o].leftControlPoints)
                               => /\ record.type = "ChangeBezier"
                                  /\ record.oldLeftControlPoints
                                        = objects[o].leftControlPoints
                            /\ (objects'[o].rightControlPoints
                                    /= objects[o].rightControlPoints)
                               => /\ record.type = "ChangeBezier"
                                  /\ record.oldRightControlPoints
                                        = objects[o].rightControlPoints
      ]_vars

\* two different operations have committed a shape, and the record of the
\* second, on a curve-typed shape, holds three sequences that differ from the
\* shape's present ones
C18_Witness ==
    /\ Len(undoStack) = 2
    /\ undoStack[1].text /= undoStack[2].text
    /\ \A k \in 1..2 : Len(undoStack[k].commands) = 1
    /\ LET record == undoStack[2].commands[1]
       IN  /\ record.type = "ChangeBezier"
           /\ record.oldPolygon /= objects[record.object].polygon
           /\ record.oldLeftControlPoints
                  /= objects[record.object].leftControlPoints
           /\ record.oldRightControlPoints
                  /= objects[record.object].rightControlPoints
           /\ record.oldLeftControlPoints /= record.oldRightControlPoints

\* the point indexes of the handles of object o gone through so far
IndexesOf(o) == {h[2] : h \in {g \in groupHandles : g[1] = o}}

\* C19: a Range-Set that any non-empty collection of integers was inserted
\* into, in any order, yields ranges with first <= last, strictly ascending
\* and pairwise non-adjacent (the next first exceeds the previous last by at
\* least 2), and the integers its ranges cover are exactly the inserted ones.
C19_RangeSetAscendingNonAdjacent ==
    \A o \in DOMAIN groupResult :
        LET rs == groupResult[o]
        IN  /\ rs /= <<>>
            /\ \A k \in 1..Len(rs) : first(rs[k]) <= last(rs[k])
            /\ \A k \in 1..(Len(rs) - 1) :
                   first(rs[k + 1]) >= last(rs[k]) + 2
            /\ Covered(rs) = IndexesOf(o)

C19_Witness ==
    \E o \in DOMAIN groupResult :
        /\ Len(groupResult[o]) = 2
        /\ Cardinality(IndexesOf(o)) = 4
        /\ length(groupResult[o][2]) = 3
        /\ Covered(groupResult[o]) = IndexesOf(o)

\* C20: the result of groupIndexesByObject has an entry for exactly the
\* shapes that own a handle of the set, and each shape's Range-Set covers
\* exactly the point indexes of its handles; inserting an index that is
\* already present leaves the Range-Set unchanged.
C20_GroupIndexesByObject ==
    /\ groupIndexesByObject(groupHandles) = groupResult
    /\ DOMAIN groupResult = {h[1] : h \in groupHandles}
    /\ \A o \in DOMAIN groupResult : Covered(groupResult[o]) = IndexesOf(o)
    /\ \A h \in groupHandles :
          /\ insert(groupResult[h[1]], h[2]) = groupResult[h[1]]
          /\ insertPointIndex(groupResult, h) = groupResult

C20_Witness ==
    /\ DOMAIN groupResult = GroupObjects
    /\ \E o, q \in GroupObjects :
          /\ Len(groupResult[o]) >= 2
          /\ Len(groupResult[q]) = 1
          /\ IndexesOf(o) \cap IndexesOf(q) /= {}
          /\ IndexesOf(q) \ IndexesOf(o) /= {}
    /\ groupIndexesByObject(groupHandles) = groupResult

\* every range of the Range-Set holds one single index
AllRangesSingle(rs) == \A k \in 1..Len(rs) : first(rs[k]) = last(rs[k])

\* C21: joinPolygonNodes with a Range-Set whose ranges all have equal first
\* and last index, where no closed wrap-around merge applies, reduces the
\* size by nothing and returns the same points as the input.
C21_JoinOfSingleIndexRangesUnchanged ==
    (/\ Joined
     /\ AllRangesSingle(inRanges)
     /\ ~WrapMerge(inPolygon, inRanges, inClosed))
    => /\ Len(outPolygon) = n0
       /\ outPolygon = inPolygon

C21_Witness ==
    /\ Joined
    /\ n0 >= 4
    /\ Len(inRanges) >= 2
    /\ AllRangesSingle(inRanges)
    /\ inClosed
    /\ first(inRanges[1]) = 0
    /\ last(inRanges[Len(inRanges)]) /= n0 - 1
    /\ \E i \in Covered(inRanges) : at(inPolygon, i) /= QPointF(0, 0)
    /\ outPolygon = inPolygon

\* a curve-typed shape whose left or right control point sequence is not as
\* long as its polygon
Mismatched(object) ==
    /\ isBezier(object.shape)
    /\ \/ Len(object.leftControlPoints) /= Len(object.polygon)
       \/ Len(object.rightControlPoints) /= Len(object.polygon)

\* C22: deleteNodes, joinNodes and splitSegments on a curve-typed shape whose
\* left or right control point sequence differs in length from its polygon
\* commit nothing for that shape: no sequence of it is set, it is not
\* removed and no undo command is pushed for it.
C22_MismatchedShapeCommitsNothing ==
    [][(\/ deleteNodes /\ mSelectedHandles /= {}
        \/ joinNodes /\ Cardinality(mSelectedHandles) >= 2
        \/ splitSegments /\ Cardinality(mSelectedHandles) >= 2)
       => \A o \in SelectedObjects :
              Mismatched(objects[o]) =>
                  /\ objects'[o] = objects[o]
                  /\ RecordsOf(o) = {}
      ]_vars

\* for every position of a joined sequence the original index of the
\* non-selected point that stands there, or -1 where a joined range stands
RECURSIVE JoinMarksFrom(_, _, _, _)
JoinMarksFrom(polygon, rs, closed, i) ==
    IF i >= Len(polygon) THEN <<>>
    ELSE (IF i \notin Covered(rs) THEN <<i>>
          ELSE IF JoinUnchangedCase(polygon, rs) THEN <<-1>>
          ELSE IF i /= first(RangeOf(rs, i)) THEN <<>>
          ELSE IF WrapMerge(polygon, rs, closed) /\ RangeOf(rs, i) = rs[Len(rs)]
          THEN <<>>
          ELSE <<-1>>)
         \o JoinMarksFrom(polygon, rs, closed, i + 1)

JoinMarks == JoinMarksFrom(inPolygon, inRanges, inClosed, 0)

\* C23: joinPolygonNodes leaves every non-selected point untouched: the
\* points of the result that do not stand for a selected range are the
\* original points at the non-selected indexes, with their values and in
\* their order, also where a closed wrap-around merge shifts the indexes.
C23_JoinKeepsUnselectedPoints ==
    Joined =>
        /\ Len(outPolygon) = Len(JoinMarks)
        /\ \A k \in 1..Len(JoinMarks) :
               JoinMarks[k] >= 0 => outPolygon[k] = at(inPolygon, JoinMarks[k])

C23_Witness ==
    /\ Joined
    /\ WrapMerge(inPolygon, inRanges, inClosed)
    /\ Len(inRanges) >= 3
    /\ length(inRanges[1]) >= 2
    /\ Len(outPolygon) < n0
    /\ \E k, j \in 1..Len(JoinMarks) :
          /\ JoinMarks[k] >= 0
          /\ JoinMarks[j] >= 0
          /\ JoinMarks[k] /= k - 1
          /\ outPolygon[k] /= outPolygon[j]
          /\ outPolygon[k] = at(inPolygon, JoinMarks[k])

\* the accesses of the algorithm that has run
Accesses ==
    CASE Deleted -> removeRangesAccesses(inPolygon, inRanges,
                                         Len(inRanges) + 1, 1)
      [] Joined -> joinPolygonNodesAccesses(inPolygon, inRanges, inClosed)
      [] Split -> splitPolygonSegmentsAccesses(inPolygon, inRanges, inClosed)
      [] OTHER -> {}

\* C24: with a Range-Set whose indexes are all below the sequence length,
\* every read, remove, replace and insert of slice deletion, joinPolygonNodes
\* and splitPolygonSegments addresses a position inside the sequence as it
\* is at that step.
C24_AccessesInBounds ==
    (\A i \in Covered(inRanges) : 0 <= i /\ i < n0)
    => \A a \in Accesses : inBounds(a)

C24_Witness ==
    /\ Joined
    /\ WrapMerge(inPolygon, inRanges, inClosed)
    /\ Len(inRanges) >= 3
    /\ \E a \in Accesses : a.op = "remove" /\ a.count >= 1 /\ a.size < n0
    /\ \E a \in Accesses : a.op = "at" /\ a.i = n0 - 1
    /\ \A a \in Accesses : inBounds(a)

\* C25: joinPolygonNodes on a sequence of at least 3 points returns at least
\* 2 points, for every Range-Set of valid indexes and either closed flag.
C25_JoinKeepsTwoPoints ==
    (Joined /\ n0 >= 3) => Len(outPolygon) >= 2

C25_Witness ==
    /\ Joined
    /\ n0 >= 5
    /\ Len(outPolygon) = 2
    /\ WrapMerge(inPolygon, inRanges, inClosed)
    /\ outPolygon[1] /= outPolygon[2]

(***************************************************************************)
(* The tool under the mouse: C26 to C30, checked under SpecMouse.          *)
(***************************************************************************)
\* every press that can reach the tool in the present state
Presses ==
    {mousePressedOn(Tool, button, cursor, clickedObjectItem, clickedHandle,
                    clickedControlPointHandle, choice) :
        button \in Buttons,
        clickedObjectItem \in {NoItem} \cup Items(objects),
        clickedHandle \in {NoHandle} \cup PointHandlesInScene,
        clickedControlPointHandle \in {NoHandle} \cup ControlPointHandlesInScene,
        choice \in Choices}

\* C26: a mouse press that arrives while the mode is not NoMode is ignored:
\* whatever the button and whatever lies under the mouse, it leaves the
\* mode, the pressed flag, the start position, the clicked handles and the
\* clicked object as they are, and it opens no context menu.
C26_PressIgnoredOutsideNoMode ==
    (active /\ ~crashed /\ mMode /= "NoMode") => Presses = {Tool}

C26_Witness ==
    /\ active /\ ~crashed
    /\ mMode = "Moving"
    /\ mSelectedHandles /= {}
    /\ ENABLED (mousePressedOther /\ UNCHANGED vars)

\* the mode the dragging starts, by what the press was on
draggingMode ==
    IF mClickedControlPointHandle /= NoHandle THEN "MovingControlPoint"
    ELSE IF mClickedHandle /= NoHandle THEN "Moving"
    ELSE "Selecting"

\* C27: the mode leaves NoMode only in a mouseMoved that finds the left
\* button pressed and the mouse at least the drag distance from where it
\* was pressed, and the new mode is MovingControlPoint when a control point
\* handle was clicked, else Moving when a point handle was clicked, else
\* Selecting; so whenever the mode is not NoMode the pressed flag is true.
C27_ModeLeavesNoModeByDragging ==
    /\ [](mMode /= "NoMode" => mMousePressed)
    /\ [][(mMode = "NoMode" /\ mMode' /= "NoMode") =>
              /\ mouseMoved
              /\ mMousePressed
              /\ Abs(mStart - cursor') >= startDragDistance
              /\ mMode' = draggingMode]_vars

C27_Witness ==
    /\ mMode = "MovingControlPoint"
    /\ mMousePressed
    /\ mClickedHandle /= NoHandle
    /\ mClickedControlPointHandle /= NoHandle

\* every release of the given button that can reach the tool
Releases(button) ==
    {mouseReleasedOn(Tool, button, modifiers, cursor, itemsInRect,
                     handlesInRect) :
        modifiers \in BOOLEAN,
        itemsInRect \in SUBSET Items(objects),
        handlesInRect \in SUBSET PointHandlesInScene}

\* C28: after every release of the left button, whatever the mode was, the
\* mode is NoMode, the pressed flag is false and the clicked point handle
\* is cleared; a release of another button changes nothing.
C28_ReleaseEndsEveryMode ==
    (active /\ ~crashed) =>
        /\ \A s \in Releases("LeftButton") :
              /\ ~s.crash /\ ~s.ub
              /\ s.mMode = "NoMode"
              /\ ~s.mMousePressed
              /\ s.mClickedHandle = NoHandle
        /\ \A button \in Buttons \ {"LeftButton"} : Releases(button) = {Tool}

\* the handles of a tool record are as C29 says
HandlesFollowSelection(s) ==
    \A item \in DOMAIN s.objects :
        LET object == s.objects[item]
            n == Len(object.polygon)
            pointHandles == valueOf(s.mHandles, item)
            left == valueOf(s.mLeftControlPointHandles, item)
            right == valueOf(s.mRightControlPointHandles, item)
            connectors == valueOf(s.mControlPointConnectors, item)
        IN  IF item \in s.selectedObjectItems
            THEN object.cell
                 \/ /\ Len(pointHandles) = n
                    /\ \A i \in 0..(n - 1) : at(pointHandles, i) = <<item, i>>
                    /\ isBezier(object.shape) =>
                          /\ Len(left) = n
                          /\ Len(right) = n
                          /\ \A i \in 0..(n - 1) :
                                /\ at(left, i) = <<item, i, FALSE>>
                                /\ at(right, i) = <<item, i, TRUE>>
                          /\ Len(connectors) = 2 * n
            ELSE /\ pointHandles = <<>>
                 /\ left = <<>>
                 /\ right = <<>>
                 /\ connectors = <<>>

\* C29: after updateHandles every selected object that is no tile object
\* has one point handle per polygon point, the handle at list position i
\* with point index i; a bezier has as well one left and one right control
\* point handle per point and two connectors per point; an object that is
\* not selected has no handles.  The tool is in this state whenever it is
\* active, and updateHandles brings it there from any state.
C29_HandlesFollowSelection ==
    /\ (active /\ ~crashed) => HandlesFollowSelection(Tool)
    /\ ~crashed => HandlesFollowSelection(updateHandlesOn(Tool))

C29_Witness ==
    /\ active /\ ~crashed
    /\ \E item \in selectedObjectItems :
          /\ ~objects[item].cell
          /\ isBezier(objects[item].shape)
          /\ Len(objects[item].polygon) = 3
          /\ Len(undoStack) = 2

\* C30: a point handle's selected flag is set exactly when the handle is
\* in mSelectedHandles, and mSelectedHandles holds no destroyed handle.
C30_SelectedFlagIsMembership ==
    /\ mSelectedHandles \subseteq PointHandlesInScene
    /\ \A handle \in PointHandlesInScene :
          handle \in handleSelected <=> handle \in mSelectedHandles

\* the commands a release of the left button at the cursor pushes, as a set
pushedOnRelease ==
    UNION {UNION {{s.undoStack[k].commands[i] :
               i \in 1..Len(s.undoStack[k].commands)} :
           k \in (Len(undoStack) + 1)..Len(s.undoStack)} :
        s \in Releases("LeftButton")}

\* C31: the release that finishes a move pushes polygon changes only, and
\* only for objects that were recorded at the start of the move and are
\* still on the map; an object removed while the move was in progress gets
\* none.
C31_MovePushesForRemainingObjects ==
    (active /\ ~crashed /\ mMode = "Moving") =>
        \A command \in pushedOnRelease :
            /\ command.type = "ChangePolygon"
            /\ command.object \in DOMAIN mOldPolygons
            /\ ~objects[command.object].removed

====
